---- MODULE Spec2Model ----
(***************************************************************************)
(* Transaction construction, canonical encoding and multisig coordination  *)
(* of js-algorand-sdk: the Transaction class (constructor,                 *)
(* get_obj_for_encoding, from_obj_for_encoding, fee resolution, txID) and  *)
(* the multisig utilities (createMultisigTransaction, partialSignTxn,      *)
(* mergeMultisigTransactions, verifyMultisig).                             *)
(*                                                                         *)
(* Conventions.  A JavaScript value that may be undefined is an Option:    *)
(* None is undefined, Some(v) is v.  A Uint8Array is a sequence of bytes.  *)
(* A JavaScript object that is serialised (EncodedTransaction,             *)
(* EncodedSignedTransaction, EncodedMultisig) is a function whose domain   *)
(* is the set of keys that are set on the object.  An operation that can   *)
(* throw returns Ok(v) or Err(message).                                    *)
(***************************************************************************)
EXTENDS Integers, Sequences, FiniteSets, TLC

VARIABLES
    pc,        \* position of the transaction pipeline / last multisig operation
    params,    \* the TransactionParams handed to the constructor
    txn,       \* result of new Transaction(params)
    obj,       \* result of txn.get_obj_for_encoding()
    dec,       \* result of Transaction.from_obj_for_encoding(obj)
    pre,       \* the multisig pre-image (version, threshold, pks) of the account
    blobs,     \* the signed blobs collected so far, in the order handed to merge
    merged,    \* result of mergeMultisigTransactions(blobs)
    verified,  \* arguments and result of the last verifyMultisig call
    call       \* the last signing operation: its name, arguments and result

vars == <<pc, params, txn, obj, dec, pre, blobs, merged, verified, call>>

(***************************************************************************)
(* Options, results, byte arrays                                           *)
(***************************************************************************)
None == <<>>
Some(v) == <<v>>
IsSome(o) == o # None
OrElse(o, d) == IF o = None THEN d ELSE o[1]

Ok(v) == [ok |-> TRUE, val |-> v]
Err(m) == [ok |-> FALSE, err |-> m]

Bytes(n, b) == [i \in 1..n |-> b]

Max(a, b) == IF a >= b THEN a ELSE b

RECURSIVE SumOver(_, _)
SumOver(f, S) ==
    IF S = {} THEN 0
    ELSE LET k == CHOOSE k \in S : TRUE IN f[k] + SumOver(f, S \ {k})

RECURSIVE SumSeq(_)
SumSeq(s) == IF s = <<>> THEN 0 ELSE Head(s) + SumSeq(Tail(s))

(***************************************************************************)
(* Program constants                                                       *)
(***************************************************************************)
ALGORAND_TRANSACTION_LEASE_LENGTH == 32
NUM_ADDL_BYTES_AFTER_SIGNING == 75
ASSET_METADATA_HASH_LENGTH == 32
KEYREG_VOTE_KEY_LENGTH == 32
KEYREG_SELECTION_KEY_LENGTH == 32
KEYREG_STATE_PROOF_KEY_LENGTH == 64
ALGORAND_TRANSACTION_GROUP_LENGTH == 32
PUBLIC_KEY_LENGTH == 32

TransactionTypes == {"pay", "keyreg", "acfg", "axfer", "afrz", "appl", "stpf"}
isTransactionType(s) == s \in TransactionTypes

(***************************************************************************)
(* Address codec, base64, hash (external collaborators)                    *)
(***************************************************************************)
Pk(k) == Bytes(PUBLIC_KEY_LENGTH, k)
ZeroPk == Pk(0)

encodeAddress(pk) == <<"address", pk>>
decodeAddress(a) == [publicKey |-> a[2], checksum |-> <<"checksum", a[2]>>]
ALGORAND_ZERO_ADDRESS_STRING == encodeAddress(ZeroPk)

bytesToBase64(b) == <<"base64", b>>
base64ToBytes(s) == s[2]

genericHash(m) == <<"sha512_256", m>>

uint8ArrayIsEmpty(input) == \A i \in DOMAIN input : input[i] = 0

(***************************************************************************)
(* Input checkers of the constructor.  Each XOk(input) is the condition    *)
(* under which the checker returns instead of throwing.                    *)
(***************************************************************************)
ensureUint64Ok(input) == input \in Int /\ input >= 0
ensureSafeUnsignedIntegerOk(input) == input \in Int /\ input >= 0

optionalUint64Ok(input) == input = None \/ ensureUint64Ok(input[1])

ensureAddressOk(input) == input # None
ensureAddress(input) == decodeAddress(input[1])

\* faulty variant: the zero address passes as an optional address
optionalAddressOkAllowingZero(input) == TRUE

optionalAddressOk(input) ==
    input = None \/ ~uint8ArrayIsEmpty(decodeAddress(input[1]).publicKey)
optionalAddress(input) ==
    IF input = None THEN None ELSE Some(decodeAddress(input[1]))

getKeyregKeyOk(input, length) == input = None \/ Len(input[1]) = length
getKeyregKey(input, length) == input

\* faulty variant: the length of a fixed-length field is not checked
optionalFixedLengthByteArrayOkAnyLength(input, length) == TRUE

optionalFixedLengthByteArrayOk(input, length) ==
    input = None \/ Len(input[1]) = length
optionalFixedLengthByteArray(input, length) ==
    IF input = None THEN None
    ELSE IF uint8ArrayIsEmpty(input[1]) THEN None
    ELSE input

(***************************************************************************)
(* msgpack codec (external collaborator): encode/decode are inverse, and   *)
(* the length of an encoding follows the wire format: minimal-width        *)
(* unsigned integers, bin, str, bool, array and map headers.               *)
(***************************************************************************)
encode(o) == <<"msgpack", o>>
decode(b) == b[2]

IntKeys == {"fee", "fv", "lv", "amt", "votefst", "votelst", "votekd", "caid",
            "xaid", "aamt", "faid", "apid", "apan", "apep", "sptype",
            "t", "dc", "nui", "nbs", "i"}
BinKeys == {"gh", "snd", "note", "lx", "rekey", "grp", "rcv", "close",
            "votekey", "selkey", "sprfkey", "arcv", "aclose", "asnd", "fadd",
            "apap", "apsu", "spmsg", "sp", "m", "r", "f", "c", "am", "n"}
StrKeys == {"type", "gen", "un", "an", "au"}
BoolKeys == {"nonpart", "afrz", "df"}
MapKeys == {"apar", "apls", "apgs"}
BinArrayKeys == {"apaa", "apat"}
IntArrayKeys == {"apas", "apfa"}
MapArrayKeys == {"apbx"}

msgpackIntLen(n) ==
    IF n < 128 THEN 1
    ELSE IF n < 256 THEN 2
    ELSE IF n < 65536 THEN 3
    ELSE 5
msgpackBinLen(n) == IF n < 256 THEN 2 + n ELSE 3 + n
msgpackStrLen(n) == IF n < 32 THEN 1 + n ELSE 2 + n
msgpackHeaderLen(n) == IF n < 16 THEN 1 ELSE 3

RECURSIVE msgpackMapLen(_)
msgpackValueLen(k, v) ==
    CASE k \in IntKeys -> msgpackIntLen(v)
      [] k \in BinKeys -> msgpackBinLen(Len(v))
      [] k \in StrKeys -> msgpackStrLen(Len(v))
      [] k \in BoolKeys -> 1
      [] k \in MapKeys -> msgpackMapLen(v)
      [] k \in BinArrayKeys ->
            msgpackHeaderLen(Len(v))
            + SumSeq([j \in DOMAIN v |-> msgpackBinLen(Len(v[j]))])
      [] k \in IntArrayKeys ->
            msgpackHeaderLen(Len(v))
            + SumSeq([j \in DOMAIN v |-> msgpackIntLen(v[j])])
      [] k \in MapArrayKeys ->
            msgpackHeaderLen(Len(v))
            + SumSeq([j \in DOMAIN v |-> msgpackMapLen(v[j])])
msgpackMapLen(o) ==
    msgpackHeaderLen(Cardinality(DOMAIN o))
    + SumOver([k \in DOMAIN o |-> msgpackStrLen(Len(k)) + msgpackValueLen(k, o[k])],
              DOMAIN o)

encodedLength(o) == msgpackMapLen(o)

(***************************************************************************)
(* Building and reading serialisable objects                               *)
(***************************************************************************)
EmptyObj == [k \in {} |-> 0]
Put(c, k, v) == IF c THEN k :> v ELSE EmptyObj
PutOpt(k, o) == IF o = None THEN EmptyObj ELSE k :> o[1]
Get(o, k) == IF k \in DOMAIN o THEN Some(o[k]) ELSE None

(***************************************************************************)
(* Box references (boxStorage.translateBoxReferences)                      *)
(***************************************************************************)
IndexOf(s, x) ==
    IF \E j \in DOMAIN s : s[j] = x
    THEN CHOOSE j \in DOMAIN s : s[j] = x /\ \A h \in DOMAIN s : s[h] = x => j <= h
    ELSE 0

canTranslateBoxReference(box, foreignApps, appId) ==
    box.appIndex = 0 \/ box.appIndex = appId \/ IndexOf(foreignApps, box.appIndex) # 0

translateBoxReference(box, foreignApps, appId) ==
    IF box.appIndex = 0 \/ box.appIndex = appId
    THEN [i |-> 0, n |-> box.name]
    ELSE [i |-> IndexOf(foreignApps, box.appIndex), n |-> box.name]

translateBoxReferences(boxes, foreignApps, appId) ==
    [j \in DOMAIN boxes |-> translateBoxReference(boxes[j], foreignApps, appId)]

(***************************************************************************)
(* Transaction.get_obj_for_encoding                                        *)
(***************************************************************************)
commonForEncoding(t) ==
    [type |-> t.type, gh |-> t.genesisHash, lv |-> t.lastValid]
    @@ Put(~uint8ArrayIsEmpty(t.sender.publicKey), "snd", t.sender.publicKey)
    @@ Put(t.genesisID # None /\ OrElse(t.genesisID, "") # "", "gen", OrElse(t.genesisID, ""))
    @@ Put(t.fee # 0, "fee", t.fee)
    @@ Put(t.firstValid # 0, "fv", t.firstValid)
    @@ Put(Len(t.note) # 0, "note", t.note)
    @@ PutOpt("lx", t.lease)
    @@ Put(t.rekeyTo # None, "rekey", OrElse(t.rekeyTo, [publicKey |-> <<>>]).publicKey)
    @@ Put(Len(t.group) # 0, "grp", t.group)

paymentForEncoding(f) ==
    Put(f.amount # 0, "amt", f.amount)
    @@ Put(~uint8ArrayIsEmpty(f.receiver.publicKey), "rcv", f.receiver.publicKey)
    @@ Put(f.closeRemainderTo # None, "close",
           OrElse(f.closeRemainderTo, [publicKey |-> <<>>]).publicKey)

keyregForEncoding(f) ==
    PutOpt("votekey", f.voteKey)
    @@ PutOpt("selkey", f.selectionKey)
    @@ PutOpt("sprfkey", f.stateProofKey)
    @@ Put(f.voteFirst # None /\ OrElse(f.voteFirst, 0) # 0, "votefst", OrElse(f.voteFirst, 0))
    @@ Put(f.voteLast # None /\ OrElse(f.voteLast, 0) # 0, "votelst", OrElse(f.voteLast, 0))
    @@ Put(f.voteKeyDilution # None /\ OrElse(f.voteKeyDilution, 0) # 0, "votekd",
           OrElse(f.voteKeyDilution, 0))
    @@ Put(f.nonParticipation, "nonpart", f.nonParticipation)

assetParamsForEncoding(f) ==
    Put(f.assetTotal # 0, "t", f.assetTotal)
    @@ Put(f.assetDecimals # 0, "dc", f.assetDecimals)
    @@ Put(f.assetDefaultFrozen, "df", f.assetDefaultFrozen)
    @@ Put(f.assetManager # None, "m", OrElse(f.assetManager, [publicKey |-> <<>>]).publicKey)
    @@ Put(f.assetReserve # None, "r", OrElse(f.assetReserve, [publicKey |-> <<>>]).publicKey)
    @@ Put(f.assetFreeze # None, "f", OrElse(f.assetFreeze, [publicKey |-> <<>>]).publicKey)
    @@ Put(f.assetClawback # None, "c", OrElse(f.assetClawback, [publicKey |-> <<>>]).publicKey)
    @@ Put(f.assetUnitName # "", "un", f.assetUnitName)
    @@ Put(f.assetName # "", "an", f.assetName)
    @@ Put(f.assetURL # "", "au", f.assetURL)
    @@ PutOpt("am", f.assetMetadataHash)

assetConfigForEncoding(f) ==
    Put(f.assetId # 0, "caid", f.assetId)
    @@ Put(DOMAIN assetParamsForEncoding(f) # {}, "apar", assetParamsForEncoding(f))

assetTransferForEncoding(f) ==
    Put(f.assetId # 0, "xaid", f.assetId)
    @@ Put(f.amount # 0, "aamt", f.amount)
    @@ Put(~uint8ArrayIsEmpty(f.receiver.publicKey), "arcv", f.receiver.publicKey)
    @@ Put(f.closeRemainderTo # None, "aclose",
           OrElse(f.closeRemainderTo, [publicKey |-> <<>>]).publicKey)
    @@ Put(f.sender # None, "asnd", OrElse(f.sender, [publicKey |-> <<>>]).publicKey)

assetFreezeForEncoding(f) ==
    Put(f.assetId # 0, "faid", f.assetId)
    @@ Put(f.assetFrozen, "afrz", f.assetFrozen)
    @@ Put(~uint8ArrayIsEmpty(f.freezeAccount.publicKey), "fadd", f.freezeAccount.publicKey)

applicationCallForEncoding(f) ==
    Put(f.appId # 0, "apid", f.appId)
    @@ Put(f.appOnComplete # 0, "apan", f.appOnComplete)
    @@ Put(Len(f.appArgs) # 0, "apaa", f.appArgs)
    @@ Put(Len(f.appAccounts) # 0, "apat",
           [j \in DOMAIN f.appAccounts |-> f.appAccounts[j].publicKey])
    @@ Put(Len(f.appForeignAssets) # 0, "apas", f.appForeignAssets)
    @@ Put(Len(f.appForeignApps) # 0, "apfa", f.appForeignApps)
    @@ Put(Len(f.boxes) # 0, "apbx",
           translateBoxReferences(f.boxes, f.appForeignApps, f.appId))
    @@ Put(Len(f.appApprovalProgram) # 0, "apap", f.appApprovalProgram)
    @@ Put(Len(f.appClearProgram) # 0, "apsu", f.appClearProgram)
    @@ Put(f.appLocalInts # 0 \/ f.appLocalByteSlices # 0, "apls",
           Put(f.appLocalInts # 0, "nui", f.appLocalInts)
           @@ Put(f.appLocalByteSlices # 0, "nbs", f.appLocalByteSlices))
    @@ Put(f.appGlobalInts # 0 \/ f.appGlobalByteSlices # 0, "apgs",
           Put(f.appGlobalInts # 0, "nui", f.appGlobalInts)
           @@ Put(f.appGlobalByteSlices # 0, "nbs", f.appGlobalByteSlices))
    @@ Put(f.extraPages # 0, "apep", f.extraPages)

stateProofForEncoding(f) ==
    Put(f.stateProofType # 0, "sptype", f.stateProofType)
    @@ [spmsg |-> f.stateProofMessage, sp |-> f.stateProof]

\* get_obj_for_encoding throws only when translateBoxReferences does
canEncode(t) ==
    t.applicationCall # None =>
        LET f == t.applicationCall[1] IN
        \A j \in DOMAIN f.boxes :
            canTranslateBoxReference(f.boxes[j], f.appForeignApps, f.appId)

get_obj_for_encoding(t) ==
    commonForEncoding(t) @@
    (CASE t.payment # None -> paymentForEncoding(t.payment[1])
       [] t.keyreg # None -> keyregForEncoding(t.keyreg[1])
       [] t.assetConfig # None -> assetConfigForEncoding(t.assetConfig[1])
       [] t.assetTransfer # None -> assetTransferForEncoding(t.assetTransfer[1])
       [] t.assetFreeze # None -> assetFreezeForEncoding(t.assetFreeze[1])
       [] t.applicationCall # None -> applicationCallForEncoding(t.applicationCall[1])
       [] t.stateProof # None -> stateProofForEncoding(t.stateProof[1]))

toByte(t) == encode(get_obj_for_encoding(t))
estimateSize(t) == encodedLength(get_obj_for_encoding(t)) + NUM_ADDL_BYTES_AFTER_SIGNING

TX_TAG == "TX"
bytesToSign(t) == <<TX_TAG, toByte(t)>>
rawTxIDWithoutTag(t) == genericHash(toByte(t))

rawTxID(t) == genericHash(<<TX_TAG, toByte(t)>>)
txID(t) == <<"base32", rawTxID(t)>>

(***************************************************************************)
(* Transaction constructor: the variant payloads                           *)
(***************************************************************************)
paymentParamsOk(pp) ==
    /\ ensureAddressOk(pp.receiver)
    /\ ensureUint64Ok(pp.amount)
    /\ optionalAddressOk(pp.closeRemainderTo)

paymentFields(pp) ==
    [receiver |-> ensureAddress(pp.receiver),
     amount |-> pp.amount,
     closeRemainderTo |-> optionalAddress(pp.closeRemainderTo)]

keyregFields(kp) ==
    [voteKey |-> getKeyregKey(kp.voteKey, KEYREG_VOTE_KEY_LENGTH),
     selectionKey |-> getKeyregKey(kp.selectionKey, KEYREG_SELECTION_KEY_LENGTH),
     stateProofKey |-> getKeyregKey(kp.stateProofKey, KEYREG_STATE_PROOF_KEY_LENGTH),
     voteFirst |-> kp.voteFirst,
     voteLast |-> kp.voteLast,
     voteKeyDilution |-> kp.voteKeyDilution,
     nonParticipation |-> OrElse(kp.nonParticipation, FALSE)]

keyregFieldsOk(kp) ==
    /\ getKeyregKeyOk(kp.voteKey, KEYREG_VOTE_KEY_LENGTH)
    /\ getKeyregKeyOk(kp.selectionKey, KEYREG_SELECTION_KEY_LENGTH)
    /\ getKeyregKeyOk(kp.stateProofKey, KEYREG_STATE_PROOF_KEY_LENGTH)
    /\ optionalUint64Ok(kp.voteFirst)
    /\ optionalUint64Ok(kp.voteLast)
    /\ optionalUint64Ok(kp.voteKeyDilution)

keyregAnyParticipationField(k) ==
    \/ k.voteKey # None
    \/ k.selectionKey # None
    \/ k.stateProofKey # None
    \/ k.voteFirst # None
    \/ k.voteLast # None
    \/ k.voteKeyDilution # None

\* faulty variant: voteKeyDilution is not among the required fields
keyregRequiredFieldsWithoutDilution(k) ==
    /\ k.voteKey # None
    /\ k.selectionKey # None
    /\ k.voteFirst # None
    /\ k.voteLast # None

keyregAllRequiredParticipationFields(k) ==
    /\ k.voteKey # None
    /\ k.selectionKey # None
    /\ k.voteFirst # None
    /\ k.voteLast # None
    /\ k.voteKeyDilution # None

\* the two checks that follow the assignment of this.keyreg
keyregNonParticipationError(k) ==
    k.nonParticipation /\ keyregAnyParticipationField(k)

keyregOnlineError(k) ==
    /\ ~k.nonParticipation
    /\ keyregAnyParticipationField(k)
    /\ ~keyregAllRequiredParticipationFields(k)

keyregParamsOk(kp) ==
    /\ keyregFieldsOk(kp)
    /\ ~keyregNonParticipationError(keyregFields(kp))
    /\ ~keyregOnlineError(keyregFields(kp))

assetConfigParamsOk(ap) ==
    /\ ensureUint64Ok(OrElse(ap.assetIndex, 0))
    /\ ensureUint64Ok(OrElse(ap.total, 0))
    /\ ensureSafeUnsignedIntegerOk(OrElse(ap.decimals, 0))
    /\ optionalAddressOk(ap.manager)
    /\ optionalAddressOk(ap.reserve)
    /\ optionalAddressOk(ap.freeze)
    /\ optionalAddressOk(ap.clawback)
    /\ optionalFixedLengthByteArrayOk(ap.assetMetadataHash, ASSET_METADATA_HASH_LENGTH)

assetConfigFields(ap) ==
    [assetId |-> OrElse(ap.assetIndex, 0),
     assetTotal |-> OrElse(ap.total, 0),
     assetDecimals |-> OrElse(ap.decimals, 0),
     assetDefaultFrozen |-> OrElse(ap.defaultFrozen, FALSE),
     assetManager |-> optionalAddress(ap.manager),
     assetReserve |-> optionalAddress(ap.reserve),
     assetFreeze |-> optionalAddress(ap.freeze),
     assetClawback |-> optionalAddress(ap.clawback),
     assetUnitName |-> OrElse(ap.unitName, ""),
     assetName |-> OrElse(ap.assetName, ""),
     assetURL |-> OrElse(ap.assetURL, ""),
     assetMetadataHash |->
        optionalFixedLengthByteArray(ap.assetMetadataHash, ASSET_METADATA_HASH_LENGTH)]

assetTransferParamsOk(ap) ==
    /\ ensureUint64Ok(ap.assetIndex)
    /\ ensureUint64Ok(ap.amount)
    /\ optionalAddressOk(ap.assetSender)
    /\ ensureAddressOk(ap.receiver)
    /\ optionalAddressOk(ap.closeRemainderTo)

assetTransferFields(ap) ==
    [assetId |-> ap.assetIndex,
     amount |-> ap.amount,
     sender |-> optionalAddress(ap.assetSender),
     receiver |-> ensureAddress(ap.receiver),
     closeRemainderTo |-> optionalAddress(ap.closeRemainderTo)]

assetFreezeParamsOk(ap) ==
    /\ ensureUint64Ok(ap.assetIndex)
    /\ ensureAddressOk(ap.freezeTarget)

assetFreezeFields(ap) ==
    [assetId |-> ap.assetIndex,
     freezeAccount |-> ensureAddress(ap.freezeTarget),
     assetFrozen |-> ap.assetFrozen]

appCallParamsOk(ap) ==
    /\ ensureUint64Ok(ap.appId)
    /\ ensureSafeUnsignedIntegerOk(OrElse(ap.numLocalInts, 0))
    /\ ensureSafeUnsignedIntegerOk(OrElse(ap.numLocalByteSlices, 0))
    /\ ensureSafeUnsignedIntegerOk(OrElse(ap.numGlobalInts, 0))
    /\ ensureSafeUnsignedIntegerOk(OrElse(ap.numGlobalByteSlices, 0))
    /\ ensureSafeUnsignedIntegerOk(OrElse(ap.extraPages, 0))
    /\ \A j \in DOMAIN OrElse(ap.accounts, <<>>) :
            ensureAddressOk(Some(OrElse(ap.accounts, <<>>)[j]))
    /\ \A j \in DOMAIN OrElse(ap.foreignApps, <<>>) :
            ensureUint64Ok(OrElse(ap.foreignApps, <<>>)[j])
    /\ \A j \in DOMAIN OrElse(ap.foreignAssets, <<>>) :
            ensureUint64Ok(OrElse(ap.foreignAssets, <<>>)[j])
    /\ \A j \in DOMAIN OrElse(ap.boxes, <<>>) :
            ensureUint64Ok(OrElse(ap.boxes, <<>>)[j].appIndex)

appCallFields(ap) ==
    [appId |-> ap.appId,
     appOnComplete |-> ap.onComplete,
     appLocalInts |-> OrElse(ap.numLocalInts, 0),
     appLocalByteSlices |-> OrElse(ap.numLocalByteSlices, 0),
     appGlobalInts |-> OrElse(ap.numGlobalInts, 0),
     appGlobalByteSlices |-> OrElse(ap.numGlobalByteSlices, 0),
     extraPages |-> OrElse(ap.extraPages, 0),
     appApprovalProgram |-> OrElse(ap.approvalProgram, <<>>),
     appClearProgram |-> OrElse(ap.clearProgram, <<>>),
     appArgs |-> OrElse(ap.appArgs, <<>>),
     appAccounts |->
        [j \in DOMAIN OrElse(ap.accounts, <<>>) |->
            ensureAddress(Some(OrElse(ap.accounts, <<>>)[j]))],
     appForeignApps |-> OrElse(ap.foreignApps, <<>>),
     appForeignAssets |-> OrElse(ap.foreignAssets, <<>>),
     boxes |-> OrElse(ap.boxes, <<>>)]

stateProofParamsOk(sp) ==
    ensureSafeUnsignedIntegerOk(OrElse(sp.stateProofType, 0))

stateProofFields(sp) ==
    [stateProofType |-> OrElse(sp.stateProofType, 0),
     stateProof |-> OrElse(sp.stateProof, <<>>),
     stateProofMessage |-> OrElse(sp.stateProofMessage, <<>>)]

(***************************************************************************)
(* Transaction constructor                                                 *)
(***************************************************************************)
fieldsPresent(p) ==
    (IF p.paymentParams # None THEN <<"pay">> ELSE <<>>)
    \o (IF p.keyregParams # None THEN <<"keyreg">> ELSE <<>>)
    \o (IF p.assetConfigParams # None THEN <<"acfg">> ELSE <<>>)
    \o (IF p.assetTransferParams # None THEN <<"axfer">> ELSE <<>>)
    \o (IF p.assetFreezeParams # None THEN <<"afrz">> ELSE <<>>)
    \o (IF p.appCallParams # None THEN <<"appl">> ELSE <<>>)
    \o (IF p.stateProofParams # None THEN <<"stpf">> ELSE <<>>)

\* faulty variant: the type tag is never compared with the sub-record supplied
variantMismatchIgnored(p) == FALSE

variantMismatch(p) == p.type # fieldsPresent(p)[1]

genesisHashMissing(sp) ==
    sp.genesisHash = None \/ base64ToBytes(sp.genesisHash[1]) = <<>>

feeDependsOnSize(sp) == ~OrElse(sp.flatFee, FALSE)

\* the object under construction as it stands when the fee is determined:
\* every field assigned, this.fee holding the suggested fee
transactionBeforeFee(p) ==
    [type |-> p.type,
     sender |-> ensureAddress(p.sender),
     note |-> OrElse(p.note, <<>>),
     lease |-> optionalFixedLengthByteArray(p.lease, ALGORAND_TRANSACTION_LEASE_LENGTH),
     rekeyTo |-> optionalAddress(p.rekeyTo),
     group |-> <<>>,
     fee |-> p.suggestedParams.fee,
     firstValid |-> p.suggestedParams.firstValid,
     lastValid |-> OrElse(p.suggestedParams.lastValid, 0),
     genesisID |->
        IF OrElse(p.suggestedParams.genesisID, "") # ""
        THEN p.suggestedParams.genesisID ELSE None,
     genesisHash |-> base64ToBytes(OrElse(p.suggestedParams.genesisHash, bytesToBase64(<<>>))),
     payment |->
        IF p.paymentParams # None THEN Some(paymentFields(p.paymentParams[1])) ELSE None,
     keyreg |->
        IF p.keyregParams # None THEN Some(keyregFields(p.keyregParams[1])) ELSE None,
     assetConfig |->
        IF p.assetConfigParams # None
        THEN Some(assetConfigFields(p.assetConfigParams[1])) ELSE None,
     assetTransfer |->
        IF p.assetTransferParams # None
        THEN Some(assetTransferFields(p.assetTransferParams[1])) ELSE None,
     assetFreeze |->
        IF p.assetFreezeParams # None
        THEN Some(assetFreezeFields(p.assetFreezeParams[1])) ELSE None,
     applicationCall |->
        IF p.appCallParams # None THEN Some(appCallFields(p.appCallParams[1])) ELSE None,
     stateProof |->
        IF p.stateProofParams # None
        THEN Some(stateProofFields(p.stateProofParams[1])) ELSE None]

\* faulty variant: the size-dependent fee is not raised to minFee
resolveFeeUnclamped(p) ==
    IF feeDependsOnSize(p.suggestedParams)
    THEN p.suggestedParams.fee * estimateSize(transactionBeforeFee(p))
    ELSE p.suggestedParams.fee

resolveFee(p) ==
    IF feeDependsOnSize(p.suggestedParams)
    THEN Max(p.suggestedParams.minFee,
             p.suggestedParams.fee * estimateSize(transactionBeforeFee(p)))
    ELSE p.suggestedParams.fee

\* the first throw statement the constructor reaches, "" when it reaches none
constructorError(p) ==
    IF ~isTransactionType(p.type) THEN "Invalid transaction type"
    ELSE IF ~ensureAddressOk(p.sender) THEN "Address must not be null or undefined"
    ELSE IF ~optionalFixedLengthByteArrayOk(p.lease, ALGORAND_TRANSACTION_LEASE_LENGTH)
        THEN "lease must be 32 bytes long"
    ELSE IF ~optionalAddressOk(p.rekeyTo) THEN "Invalid use of the zero address"
    ELSE IF ~ensureUint64Ok(p.suggestedParams.firstValid) THEN "Not a uint64"
    ELSE IF p.suggestedParams.lastValid = None
            \/ ~ensureUint64Ok(OrElse(p.suggestedParams.lastValid, 0))
        THEN "Not a uint64"
    ELSE IF genesisHashMissing(p.suggestedParams) THEN "Genesis hash must be specified"
    ELSE IF Len(fieldsPresent(p)) # 1
        THEN "Transaction has wrong number of type fields present"
    ELSE IF variantMismatch(p)
        THEN "Transaction has type but fields present for another"
    ELSE IF p.paymentParams # None /\ ~paymentParamsOk(p.paymentParams[1])
        THEN "Invalid payment params"
    ELSE IF p.keyregParams # None /\ ~keyregFieldsOk(p.keyregParams[1])
        THEN "Invalid keyreg params"
    ELSE IF p.keyregParams # None
            /\ keyregNonParticipationError(keyregFields(p.keyregParams[1]))
        THEN "nonParticipation is true but participation params are present."
    ELSE IF p.keyregParams # None /\ keyregOnlineError(keyregFields(p.keyregParams[1]))
        THEN "Online key registration missing at least one of the following fields"
    ELSE IF p.assetConfigParams # None /\ ~assetConfigParamsOk(p.assetConfigParams[1])
        THEN "Invalid asset config params"
    ELSE IF p.assetTransferParams # None
            /\ ~assetTransferParamsOk(p.assetTransferParams[1])
        THEN "Invalid asset transfer params"
    ELSE IF p.assetFreezeParams # None /\ ~assetFreezeParamsOk(p.assetFreezeParams[1])
        THEN "Invalid asset freeze params"
    ELSE IF p.appCallParams # None /\ ~appCallParamsOk(p.appCallParams[1])
        THEN "Invalid application call params"
    ELSE IF p.stateProofParams # None /\ ~stateProofParamsOk(p.stateProofParams[1])
        THEN "Invalid state proof params"
    ELSE IF ~ensureUint64Ok(p.suggestedParams.fee) THEN "Not a uint64"
    ELSE IF feeDependsOnSize(p.suggestedParams)
            /\ ~ensureUint64Ok(p.suggestedParams.minFee)
        THEN "Not a uint64"
    ELSE IF feeDependsOnSize(p.suggestedParams) /\ ~canEncode(transactionBeforeFee(p))
        THEN "Box ref not in foreign-apps"
    ELSE ""

Transaction(p) ==
    IF constructorError(p) # ""
    THEN Err(constructorError(p))
    ELSE Ok([transactionBeforeFee(p) EXCEPT !.fee = resolveFee(p)])

(***************************************************************************)
(* Transaction.from_obj_for_encoding                                       *)
(***************************************************************************)
addressOrZero(o) ==
    IF o = None THEN ALGORAND_ZERO_ADDRESS_STRING ELSE encodeAddress(o[1])
optionalAddressString(o) ==
    IF o = None THEN None ELSE Some(encodeAddress(o[1]))

NoVariantParams ==
    [paymentParams |-> None, keyregParams |-> None, assetConfigParams |-> None,
     assetTransferParams |-> None, assetFreezeParams |-> None,
     appCallParams |-> None, stateProofParams |-> None]

decodedBoxesOk(e) ==
    "apbx" \in DOMAIN e =>
        \A j \in DOMAIN e.apbx :
            LET index == OrElse(Get(e.apbx[j], "i"), 0) IN
            index = 0 \/ ("apfa" \in DOMAIN e /\ index <= Len(e.apfa))

decodedBoxes(e) ==
    IF "apbx" \notin DOMAIN e THEN None
    ELSE Some([j \in DOMAIN e.apbx |->
            LET index == OrElse(Get(e.apbx[j], "i"), 0)
                name == OrElse(Get(e.apbx[j], "n"), <<>>)
            IN  IF index = 0
                THEN [appIndex |-> 0, name |-> name]
                ELSE [appIndex |-> e.apfa[index], name |-> name]])

variantParamsFromEncoding(e) ==
    CASE e.type = "pay" ->
            [NoVariantParams EXCEPT !.paymentParams =
                Some([amount |-> OrElse(Get(e, "amt"), 0),
                      receiver |-> Some(addressOrZero(Get(e, "rcv"))),
                      closeRemainderTo |-> optionalAddressString(Get(e, "close"))])]
      [] e.type = "keyreg" ->
            [NoVariantParams EXCEPT !.keyregParams =
                Some([voteKey |-> Get(e, "votekey"),
                      selectionKey |-> Get(e, "selkey"),
                      stateProofKey |-> Get(e, "sprfkey"),
                      voteFirst |-> Get(e, "votefst"),
                      voteLast |-> Get(e, "votelst"),
                      voteKeyDilution |-> Get(e, "votekd"),
                      nonParticipation |-> Get(e, "nonpart")])]
      [] e.type = "acfg" ->
            LET apar == OrElse(Get(e, "apar"), EmptyObj) IN
            [NoVariantParams EXCEPT !.assetConfigParams =
                Some([assetIndex |-> Get(e, "caid"),
                      total |-> Get(apar, "t"),
                      decimals |-> Get(apar, "dc"),
                      defaultFrozen |-> Get(apar, "df"),
                      unitName |-> Get(apar, "un"),
                      assetName |-> Get(apar, "an"),
                      assetURL |-> Get(apar, "au"),
                      assetMetadataHash |-> Get(apar, "am"),
                      manager |-> optionalAddressString(Get(apar, "m")),
                      reserve |-> optionalAddressString(Get(apar, "r")),
                      freeze |-> optionalAddressString(Get(apar, "f")),
                      clawback |-> optionalAddressString(Get(apar, "c"))])]
      [] e.type = "axfer" ->
            [NoVariantParams EXCEPT !.assetTransferParams =
                Some([assetIndex |-> OrElse(Get(e, "xaid"), 0),
                      amount |-> OrElse(Get(e, "aamt"), 0),
                      receiver |-> Some(addressOrZero(Get(e, "arcv"))),
                      closeRemainderTo |-> optionalAddressString(Get(e, "aclose")),
                      assetSender |-> optionalAddressString(Get(e, "asnd"))])]
      [] e.type = "afrz" ->
            [NoVariantParams EXCEPT !.assetFreezeParams =
                Some([assetIndex |-> OrElse(Get(e, "faid"), 0),
                      freezeTarget |-> Some(addressOrZero(Get(e, "fadd"))),
                      assetFrozen |-> OrElse(Get(e, "afrz"), FALSE)])]
      [] e.type = "appl" ->
            LET apat == OrElse(Get(e, "apat"), <<>>)
                apls == OrElse(Get(e, "apls"), EmptyObj)
                apgs == OrElse(Get(e, "apgs"), EmptyObj)
            IN
            [NoVariantParams EXCEPT !.appCallParams =
                Some([appId |-> OrElse(Get(e, "apid"), 0),
                      onComplete |-> OrElse(Get(e, "apan"), 0),
                      appArgs |-> Get(e, "apaa"),
                      accounts |-> Some([j \in DOMAIN apat |-> encodeAddress(apat[j])]),
                      foreignAssets |-> Get(e, "apas"),
                      foreignApps |-> Get(e, "apfa"),
                      approvalProgram |-> Get(e, "apap"),
                      clearProgram |-> Get(e, "apsu"),
                      numLocalInts |-> Get(apls, "nui"),
                      numLocalByteSlices |-> Get(apls, "nbs"),
                      numGlobalInts |-> Get(apgs, "nui"),
                      numGlobalByteSlices |-> Get(apgs, "nbs"),
                      extraPages |-> Get(e, "apep"),
                      boxes |-> decodedBoxes(e)])]
      [] e.type = "stpf" ->
            [NoVariantParams EXCEPT !.stateProofParams =
                Some([stateProofType |-> Get(e, "sptype"),
                      stateProof |-> Get(e, "sp"),
                      stateProofMessage |-> Get(e, "spmsg")])]

paramsFromEncoding(e) ==
    [type |-> e.type,
     sender |-> Some(addressOrZero(Get(e, "snd"))),
     note |-> Get(e, "note"),
     lease |-> Get(e, "lx"),
     rekeyTo |-> optionalAddressString(Get(e, "rekey")),
     suggestedParams |->
        [minFee |-> 0,
         flatFee |-> Some(TRUE),
         fee |-> OrElse(Get(e, "fee"), 0),
         firstValid |-> OrElse(Get(e, "fv"), 0),
         lastValid |-> Get(e, "lv"),
         genesisHash |-> Some(bytesToBase64(OrElse(Get(e, "gh"), <<>>))),
         genesisID |-> Get(e, "gen")]]
    @@ variantParamsFromEncoding(e)

\* the statements that follow new Transaction(params): the group is restored
withGroup(constructed, e) ==
    IF ~constructed.ok THEN constructed
    ELSE IF "grp" \in DOMAIN e /\ Len(e.grp) # ALGORAND_TRANSACTION_GROUP_LENGTH
        THEN Err("Invalid group length")
    ELSE Ok([constructed.val EXCEPT !.group = OrElse(Get(e, "grp"), <<>>)])

from_obj_for_encoding(e) ==
    IF ~isTransactionType(e.type) THEN Err("Unrecognized transaction type")
    ELSE IF e.type = "appl" /\ ~ensureSafeUnsignedIntegerOk(OrElse(Get(e, "apan"), 0))
        THEN Err("Not a safe unsigned integer")
    ELSE IF e.type = "appl" /\ ~decodedBoxesOk(e) THEN Err("Cannot find foreign app index")
    ELSE withGroup(Transaction(paramsFromEncoding(e)), e)

(***************************************************************************)
(* Ed25519 (nacl wrappers, external collaborator).  A secret key is        *)
(* <<"sk", k>> and its public key Pk(k).  A signature is determined by the *)
(* signing key and the message; len is its length in bytes.                *)
(***************************************************************************)
SIGNATURE_LENGTH == 64
keyPairFromSecretKey(sk) == [publicKey |-> Pk(sk[2]), secretKey |-> sk]
sign(msg, sk) == [len |-> SIGNATURE_LENGTH, signer |-> Pk(sk[2]), msg |-> msg]
verify(msg, sig, pk) == sig.len = SIGNATURE_LENGTH /\ sig.signer = pk /\ sig.msg = msg
isValidSignatureLength(n) == n = SIGNATURE_LENGTH

\* address.fromMultisigPreImg: the SHA-512/256 digest of
\* "MultisigAddr" || byte(v) || byte(thr) || pk_1 || ... || pk_n, a public key.
\* The digest is laid out as 32 values that determine (v, thr, pks) and that
\* no key Pk(k) shares.
fromMultisigPreImg(p) ==
    [i \in 1..PUBLIC_KEY_LENGTH |->
        IF i = 1 THEN 256 + p.version
        ELSE IF i = 2 THEN p.threshold
        ELSE IF i - 2 <= Len(p.pks) THEN 1 + p.pks[i - 2][1]
        ELSE 0]

\* faulty variant: the encoded transaction is signed without the "TX" tag
rawSignTxnWithoutTag(t, sk) == sign(toByte(t), sk)

rawSignTxn(t, sk) == sign(bytesToSign(t), sk)

(***************************************************************************)
(* Multisig utilities                                                      *)
(***************************************************************************)
MULTISIG_MERGE_LESSTHANTWO_ERROR_MSG ==
    "Not enough multisig transactions to merge. Need at least two"
MULTISIG_MERGE_MISMATCH_ERROR_MSG == "Cannot merge txs. txIDs differ"
MULTISIG_MERGE_MISMATCH_AUTH_ADDR_MSG == "Cannot merge txs. Auth addrs differ"
MULTISIG_MERGE_WRONG_PREIMAGE_ERROR_MSG == "Cannot merge txs. Multisig preimages differ"
MULTISIG_MERGE_SIG_MISMATCH_ERROR_MSG == "Cannot merge txs. subsigs are mismatched."
MULTISIG_KEY_NOT_EXIST_ERROR_MSG == "Key does not exist"
MULTISIG_NO_MUTATE_ERROR_MSG ==
    "Cannot mutate a multisig field as it would invalidate all existing signatures."
MULTISIG_SIGNATURE_LENGTH_ERROR_MSG ==
    "Cannot add multisig signature. Signature is not of the correct length."
MULTISIG_MISSING_ERROR_MSG == "Invalid multisig transaction, multisig structure missing"

\* faulty variant: sgnr is set whatever the sender
withAuthAddrAlways(signedTxn, p) == ("sgnr" :> fromMultisigPreImg(p)) @@ signedTxn

\* sgnr is set iff the sender's address differs from the multisig address
withAuthAddr(signedTxn, p) ==
    LET msigAddr == fromMultisigPreImg(p)
        senderAddr == addressOrZero(Get(signedTxn.txn, "snd"))
    IN  IF senderAddr # encodeAddress(msigAddr)
        THEN ("sgnr" :> msigAddr) @@ signedTxn
        ELSE signedTxn

\* createMultisigTransaction, before the final encoding; m.addrs are addresses
createMultisigSignedTxn(t, m) ==
    LET pks == [j \in DOMAIN m.addrs |-> decodeAddress(m.addrs[j]).publicKey]
        msig == [v |-> m.version, thr |-> m.threshold,
                 subsig |-> [j \in DOMAIN pks |-> [pk |-> pks[j]]]]
    IN  withAuthAddr([msig |-> msig, txn |-> get_obj_for_encoding(t)],
                     [version |-> m.version, threshold |-> m.threshold, pks |-> pks])

createMultisigTransaction(t, m) == encode(createMultisigSignedTxn(t, m))

\* faulty variant: the signature is written to every slot
attachSubsigToEverySlot(subsig, rawSig, myPk) == ("s" :> rawSig) @@ subsig

\* the forEach of createMultisigTransactionWithSignature on one subsig
attachSubsig(subsig, rawSig, myPk) ==
    IF subsig.pk = myPk THEN ("s" :> rawSig) @@ subsig ELSE subsig

\* createMultisigTransactionWithSignature once the empty blob is decoded
attachSignatureTo(signedTxn, rawSig, myPk, p) ==
    IF ~(\E j \in DOMAIN signedTxn.msig.subsig : signedTxn.msig.subsig[j].pk = myPk)
    THEN Err(MULTISIG_KEY_NOT_EXIST_ERROR_MSG)
    ELSE Ok(encode(withAuthAddr(
            [signedTxn EXCEPT !.msig =
                [signedTxn.msig EXCEPT !.subsig =
                    [j \in DOMAIN signedTxn.msig.subsig |->
                        attachSubsig(signedTxn.msig.subsig[j], rawSig, myPk)]]], p)))

createMultisigTransactionWithSignature(t, rawSig, myPk, p) ==
    attachSignatureTo(
        decode(createMultisigTransaction(t,
            [version |-> p.version, threshold |-> p.threshold,
             addrs |-> [j \in DOMAIN p.pks |-> encodeAddress(p.pks[j])]])),
        rawSig, myPk, p)

partialSignTxn(t, p, sk) ==
    createMultisigTransactionWithSignature(
        t, rawSignTxn(t, sk), keyPairFromSecretKey(sk).publicKey, p)

partialSignWithMultisigSignature(t, p, signerAddr, signature) ==
    IF ~isValidSignatureLength(signature.len)
    THEN Err(MULTISIG_SIGNATURE_LENGTH_ERROR_MSG)
    ELSE createMultisigTransactionWithSignature(
            t, signature, decodeAddress(signerAddr).publicKey, p)

\* sgnr is set iff the signing key is not the sender's
withSigner(sTxn, pubKeyFromSk, sender) ==
    encode(IF encodeAddress(pubKeyFromSk) # encodeAddress(sender)
           THEN ("sgnr" :> pubKeyFromSk) @@ sTxn
           ELSE sTxn)

signTxn(t, sk) ==
    withSigner([sig |-> rawSignTxn(t, sk), txn |-> get_obj_for_encoding(t)],
               keyPairFromSecretKey(sk).publicKey, t.sender.publicKey)

\* faulty variant: sgnr is attached whoever the signer is
withSignerAddrAlways(sTxn, signerAddr, sender) ==
    encode(("sgnr" :> decodeAddress(signerAddr).publicKey) @@ sTxn)

\* sgnr is set iff the signer's address is not the sender's
withSignerAddr(sTxn, signerAddr, sender) ==
    encode(IF signerAddr # encodeAddress(sender)
           THEN ("sgnr" :> decodeAddress(signerAddr).publicKey) @@ sTxn
           ELSE sTxn)

\* faulty variant: a signature of any length is attached
attachSignatureOfAnyLength(t, signerAddr, signature) ==
    Ok(withSignerAddr([sig |-> signature, txn |-> get_obj_for_encoding(t)],
                      signerAddr, t.sender.publicKey))

attachSignature(t, signerAddr, signature) ==
    IF ~isValidSignatureLength(signature.len) THEN Err("Invalid signature length")
    ELSE Ok(withSignerAddr([sig |-> signature, txn |-> get_obj_for_encoding(t)],
                           signerAddr, t.sender.publicKey))

\* ---- mergeMultisigTransactions ----
authAddrOf(signedTxn) ==
    IF "sgnr" \in DOMAIN signedTxn THEN Some(encodeAddress(signedTxn.sgnr)) ELSE None

preImageOf(msig) ==
    [version |-> msig.v, threshold |-> msig.thr,
     pks |-> [j \in DOMAIN msig.subsig |-> msig.subsig[j].pk]]

msigAddrOf(msig) == encodeAddress(fromMultisigPreImg(preImageOf(msig)))

\* faulty variant: the auth-addresses are not compared
authAddrMismatchIgnored(refSigTx, unisig) == FALSE

authAddrMismatch(refSigTx, unisig) == authAddrOf(refSigTx) # authAddrOf(unisig)

\* faulty variant: only the subsig lengths are compared
preImageMismatchByLengthOnly(refSigTx, unisig) ==
    Len(unisig.msig.subsig) # Len(refSigTx.msig.subsig)

preImageMismatch(refSigTx, unisig) ==
    \/ Len(unisig.msig.subsig) # Len(refSigTx.msig.subsig)
    \/ msigAddrOf(refSigTx.msig) # msigAddrOf(unisig.msig)

\* faulty variant: two signatures in one slot conflict even when they are equal
subsigMismatchOnAnyTwo(current, uniSubsig) ==
    /\ "s" \in DOMAIN uniSubsig
    /\ "s" \in DOMAIN current

subsigMismatch(current, uniSubsig) ==
    /\ "s" \in DOMAIN uniSubsig
    /\ "s" \in DOMAIN current
    /\ uniSubsig.s # current.s

\* faulty variant: a signature of a later blob is never adopted
mergeSubsigKeepingCurrent(current, uniSubsig) == current

mergeSubsig(current, uniSubsig) ==
    IF "s" \in DOMAIN uniSubsig THEN ("s" :> uniSubsig.s) @@ current ELSE current

\* faulty variant: a differing signature of a later blob replaces the current one
mergeDecodedOverwriting(refSigTx, refTxID, newSubsigs, unisig, unisigAlgoTxn) ==
    IF "msig" \notin DOMAIN unisig THEN Err(MULTISIG_MISSING_ERROR_MSG)
    ELSE IF ~unisigAlgoTxn.ok THEN unisigAlgoTxn
    ELSE IF txID(unisigAlgoTxn.val) # refTxID THEN Err(MULTISIG_MERGE_MISMATCH_ERROR_MSG)
    ELSE IF authAddrMismatch(refSigTx, unisig) THEN Err(MULTISIG_MERGE_MISMATCH_AUTH_ADDR_MSG)
    ELSE IF preImageMismatch(refSigTx, unisig) THEN Err(MULTISIG_MERGE_WRONG_PREIMAGE_ERROR_MSG)
    ELSE Ok([j \in DOMAIN newSubsigs |-> mergeSubsig(newSubsigs[j], unisig.msig.subsig[j])])

\* one iteration of the loop over multisigTxnBlobs[1..], the blob decoded: the
\* new value of newSubsigs, or the error thrown
mergeDecoded(refSigTx, refTxID, newSubsigs, unisig, unisigAlgoTxn) ==
    IF "msig" \notin DOMAIN unisig THEN Err(MULTISIG_MISSING_ERROR_MSG)
    ELSE IF ~unisigAlgoTxn.ok THEN unisigAlgoTxn
    ELSE IF txID(unisigAlgoTxn.val) # refTxID THEN Err(MULTISIG_MERGE_MISMATCH_ERROR_MSG)
    ELSE IF authAddrMismatch(refSigTx, unisig) THEN Err(MULTISIG_MERGE_MISMATCH_AUTH_ADDR_MSG)
    ELSE IF preImageMismatch(refSigTx, unisig) THEN Err(MULTISIG_MERGE_WRONG_PREIMAGE_ERROR_MSG)
    ELSE IF \E j \in DOMAIN newSubsigs : subsigMismatch(newSubsigs[j], unisig.msig.subsig[j])
        THEN Err(MULTISIG_MERGE_SIG_MISMATCH_ERROR_MSG)
    ELSE Ok([j \in DOMAIN newSubsigs |-> mergeSubsig(newSubsigs[j], unisig.msig.subsig[j])])

\* faulty variant: a later blob is merged without comparing its transaction,
\* auth-address and pre-image with the first blob's
mergeOneUnchecked(refSigTx, refTxID, newSubsigs, blob) ==
    Ok([j \in DOMAIN newSubsigs |->
            IF j \in DOMAIN decode(blob).msig.subsig
            THEN mergeSubsig(newSubsigs[j], decode(blob).msig.subsig[j])
            ELSE newSubsigs[j]])

mergeOne(refSigTx, refTxID, newSubsigs, blob) ==
    mergeDecoded(refSigTx, refTxID, newSubsigs,
                 decode(blob), from_obj_for_encoding(decode(blob).txn))

RECURSIVE mergeLoop(_, _, _, _, _)
\* a throw inside the loop ends it; otherwise the next blob is taken
mergeNext(refSigTx, refTxID, step, multisigTxnBlobs, i) ==
    IF ~step.ok THEN step
    ELSE mergeLoop(refSigTx, refTxID, step.val, multisigTxnBlobs, i + 1)

\* faulty variant: a rejected blob ends the loop with what was merged so far
mergeLoopKeepingPartial(refSigTx, refTxID, newSubsigs, multisigTxnBlobs, i) ==
    IF i > Len(multisigTxnBlobs) THEN Ok(newSubsigs)
    ELSE IF ~mergeOne(refSigTx, refTxID, newSubsigs, multisigTxnBlobs[i]).ok
        THEN Ok(newSubsigs)
    ELSE mergeLoop(refSigTx, refTxID,
                   mergeOne(refSigTx, refTxID, newSubsigs, multisigTxnBlobs[i]).val,
                   multisigTxnBlobs, i + 1)

mergeLoop(refSigTx, refTxID, newSubsigs, multisigTxnBlobs, i) ==
    IF i > Len(multisigTxnBlobs) THEN Ok(newSubsigs)
    ELSE mergeNext(refSigTx, refTxID,
                   mergeOne(refSigTx, refTxID, newSubsigs, multisigTxnBlobs[i]),
                   multisigTxnBlobs, i)

\* the statements that follow the loop
mergedSignedTxn(refSigTx, loop) ==
    IF ~loop.ok THEN loop
    ELSE Ok(encode(
            [msig |-> [v |-> refSigTx.msig.v, thr |-> refSigTx.msig.thr,
                       subsig |-> loop.val],
             txn |-> refSigTx.txn]
            @@ (IF authAddrOf(refSigTx) # None
                THEN "sgnr" :> decodeAddress(authAddrOf(refSigTx)[1]).publicKey
                ELSE EmptyObj)))

\* the merge once the reference blob is decoded
mergeWithReference(refSigTx, refAlgoTxn, multisigTxnBlobs) ==
    IF "msig" \notin DOMAIN refSigTx THEN Err(MULTISIG_MISSING_ERROR_MSG)
    ELSE IF ~refAlgoTxn.ok THEN refAlgoTxn
    ELSE mergedSignedTxn(refSigTx,
            mergeLoop(refSigTx, txID(refAlgoTxn.val), refSigTx.msig.subsig,
                      multisigTxnBlobs, 2))

mergeMultisigTransactions(multisigTxnBlobs) ==
    IF Len(multisigTxnBlobs) < 2 THEN Err(MULTISIG_MERGE_LESSTHANTWO_ERROR_MSG)
    ELSE mergeWithReference(decode(multisigTxnBlobs[1]),
                            from_obj_for_encoding(decode(multisigTxnBlobs[1]).txn),
                            multisigTxnBlobs)

\* ---- signMultisigTransaction, appendSign* ----
pksOf(addrs) == [j \in DOMAIN addrs |-> decodeAddress(addrs[j]).publicKey]

preImageOfMetadata(m) ==
    [version |-> m.version, threshold |-> m.threshold, pks |-> pksOf(m.addrs)]

\* the returned { txID, blob } once the blob is computed
withTxID(t, blob) ==
    IF ~blob.ok THEN blob ELSE Ok([txID |-> txID(t), blob |-> blob.val])

signMultisigTransaction(t, m, sk) ==
    withTxID(t, partialSignTxn(t, preImageOfMetadata(m), sk))

\* faulty variant: the new partial signature is returned without the merge
appendPartialReplacing(multisigTxnBlob, msigTxn, partialSignedBlob) ==
    IF ~partialSignedBlob.ok THEN partialSignedBlob
    ELSE withTxID(msigTxn, partialSignedBlob)

\* the return statement of appendSign*: the given blob merged with the new one
appendPartial(multisigTxnBlob, msigTxn, partialSignedBlob) ==
    IF ~partialSignedBlob.ok THEN partialSignedBlob
    ELSE withTxID(msigTxn,
                  mergeMultisigTransactions(<<multisigTxnBlob, partialSignedBlob.val>>))

\* appendSignMultisigTransaction once the transaction inside the blob is decoded
appendSigned(multisigTxnBlob, msigTxn, m, sk) ==
    IF ~msigTxn.ok THEN msigTxn
    ELSE appendPartial(multisigTxnBlob, msigTxn.val,
                       partialSignTxn(msigTxn.val, preImageOfMetadata(m), sk))

appendSignMultisigTransaction(multisigTxnBlob, m, sk) ==
    appendSigned(multisigTxnBlob,
                 from_obj_for_encoding(decode(multisigTxnBlob).txn), m, sk)

\* appendSignRawMultisigSignature once the transaction inside the blob is decoded
appendRaw(multisigTxnBlob, msigTxn, m, signerAddr, signature) ==
    IF ~msigTxn.ok THEN msigTxn
    ELSE appendPartial(multisigTxnBlob, msigTxn.val,
                       partialSignWithMultisigSignature(
                           msigTxn.val, preImageOfMetadata(m), signerAddr, signature))

appendSignRawMultisigSignature(multisigTxnBlob, m, signerAddr, signature) ==
    appendRaw(multisigTxnBlob, from_obj_for_encoding(decode(multisigTxnBlob).txn),
              m, signerAddr, signature)

\* ---- verifyMultisig ----
signedSubsigs(msig) == {j \in DOMAIN msig.subsig : "s" \in DOMAIN msig.subsig[j]}

\* faulty variant: every signed slot is counted as verified
verifiedSubsigsUnchecked(toBeVerified, msig) == signedSubsigs(msig)

verifiedSubsigs(toBeVerified, msig) ==
    {j \in signedSubsigs(msig) :
        verify(toBeVerified, msig.subsig[j].s, msig.subsig[j].pk)}

\* faulty variant: one signed slot that does not verify fails the whole check
verifyMultisigEverySigned(toBeVerified, msig, publicKey) ==
    IF Len(msig.subsig) < msig.thr THEN FALSE
    ELSE IF fromMultisigPreImg(preImageOf(msig)) # publicKey THEN FALSE
    ELSE IF Cardinality(signedSubsigs(msig)) < msig.thr THEN FALSE
    ELSE verifiedSubsigs(toBeVerified, msig) = signedSubsigs(msig)

verifyMultisig(toBeVerified, msig, publicKey) ==
    IF Len(msig.subsig) < msig.thr THEN FALSE
    ELSE IF fromMultisigPreImg(preImageOf(msig)) # publicKey THEN FALSE
    ELSE IF Cardinality(signedSubsigs(msig)) < msig.thr THEN FALSE
    ELSE IF Cardinality(verifiedSubsigs(toBeVerified, msig)) < msig.thr THEN FALSE
    ELSE TRUE

(***************************************************************************)
(* Bounds and input values                                                 *)
(***************************************************************************)
MaxKey == 2          \* public keys Pk(0) .. Pk(MaxKey); Pk(0) is the zero address
MaxFee == 2          \* suggested fees 0 .. MaxFee
MaxVote == 1         \* keyreg voteFirst / voteLast / voteKeyDilution 0 .. MaxVote

Keys == {Pk(k) : k \in 0..MaxKey}
Addresses == {encodeAddress(k) : k \in Keys}
AddrA == encodeAddress(Pk(1))
AddrB == encodeAddress(Pk(2))
OptOf(S) == {None} \cup {Some(v) : v \in S}

GenesisHash32 == bytesToBase64(Bytes(32, 1))

BaseSuggestedParams ==
    [fee |-> 1000, minFee |-> 1000, flatFee |-> Some(TRUE), firstValid |-> 1,
     lastValid |-> Some(1001), genesisID |-> Some("testnet-v1.0"),
     genesisHash |-> Some(GenesisHash32)]

BaseParams ==
    [type |-> "pay", sender |-> Some(AddrA), note |-> None, lease |-> None,
     rekeyTo |-> None, suggestedParams |-> BaseSuggestedParams]
    @@ NoVariantParams

BasePayment == [receiver |-> Some(AddrB), amount |-> 1000, closeRemainderTo |-> None]
BaseKeyreg ==
    [voteKey |-> None, selectionKey |-> None, stateProofKey |-> None, voteFirst |-> None,
     voteLast |-> None, voteKeyDilution |-> None, nonParticipation |-> None]
BaseAssetConfig ==
    [assetIndex |-> None, total |-> Some(1000000), decimals |-> Some(6),
     defaultFrozen |-> None, manager |-> None, reserve |-> None, freeze |-> None,
     clawback |-> None, unitName |-> Some("FOO"), assetName |-> Some("Foo Coin"),
     assetURL |-> None, assetMetadataHash |-> None]
BaseAssetTransfer ==
    [assetIndex |-> 7, amount |-> 5, assetSender |-> None, receiver |-> Some(AddrB),
     closeRemainderTo |-> None]
BaseAssetFreeze == [assetIndex |-> 7, freezeTarget |-> Some(AddrB), assetFrozen |-> TRUE]
BaseAppCall ==
    [appId |-> 10, onComplete |-> 0, numLocalInts |-> None, numLocalByteSlices |-> None,
     numGlobalInts |-> None, numGlobalByteSlices |-> None, extraPages |-> None,
     approvalProgram |-> None, clearProgram |-> None, appArgs |-> None,
     accounts |-> None, foreignApps |-> Some(<<100, 200>>), foreignAssets |-> None,
     boxes |-> Some(<<[appIndex |-> 100, name |-> <<120>>], [appIndex |-> 0, name |-> <<121>>]>>)]
BaseStateProof ==
    [stateProofType |-> None, stateProof |-> Some(<<1, 2>>), stateProofMessage |-> None]

\* one well-formed parameter record per transaction type
WithVariant(ty) ==
    CASE ty = "pay" -> [BaseParams EXCEPT !.type = ty, !.paymentParams = Some(BasePayment)]
      [] ty = "keyreg" -> [BaseParams EXCEPT !.type = ty, !.keyregParams = Some(BaseKeyreg)]
      [] ty = "acfg" ->
            [BaseParams EXCEPT !.type = ty, !.assetConfigParams = Some(BaseAssetConfig)]
      [] ty = "axfer" ->
            [BaseParams EXCEPT !.type = ty, !.assetTransferParams = Some(BaseAssetTransfer)]
      [] ty = "afrz" ->
            [BaseParams EXCEPT !.type = ty, !.assetFreezeParams = Some(BaseAssetFreeze)]
      [] ty = "appl" -> [BaseParams EXCEPT !.type = ty, !.appCallParams = Some(BaseAppCall)]
      [] ty = "stpf" ->
            [BaseParams EXCEPT !.type = ty, !.stateProofParams = Some(BaseStateProof)]

\* fee inputs: every type, flat and size-dependent fees
FeeInputs ==
    {[WithVariant(ty) EXCEPT !.suggestedParams =
        [BaseSuggestedParams EXCEPT !.fee = fee, !.flatFee = flat, !.minFee = minFee,
                                    !.firstValid = fv]] :
        ty \in TransactionTypes, fee \in (-1)..MaxFee,
        flat \in OptOf(BOOLEAN), minFee \in {0, 300, 1000}, fv \in {0, 1}}

\* variant discipline: any type tag with any set of sub-records
VariantInputs ==
    {[BaseParams EXCEPT !.type = ty,
        !.paymentParams = IF "pay" \in S THEN Some(BasePayment) ELSE None,
        !.keyregParams = IF "keyreg" \in S THEN Some(BaseKeyreg) ELSE None,
        !.assetConfigParams = IF "acfg" \in S THEN Some(BaseAssetConfig) ELSE None,
        !.assetTransferParams = IF "axfer" \in S THEN Some(BaseAssetTransfer) ELSE None,
        !.assetFreezeParams = IF "afrz" \in S THEN Some(BaseAssetFreeze) ELSE None,
        !.appCallParams = IF "appl" \in S THEN Some(BaseAppCall) ELSE None,
        !.stateProofParams = IF "stpf" \in S THEN Some(BaseStateProof) ELSE None] :
        ty \in TransactionTypes \cup {"bogus"},
        S \in {T \in SUBSET TransactionTypes : Cardinality(T) <= 2}}

\* key registration: every combination of presence, zero and non-zero values
KeyregInputs ==
    {[WithVariant("keyreg") EXCEPT
        !.suggestedParams.flatFee = flat,
        !.keyregParams =
            Some([voteKey |-> vk, selectionKey |-> sk, stateProofKey |-> spk,
                  voteFirst |-> vf, voteLast |-> vl, voteKeyDilution |-> vkd,
                  nonParticipation |-> np])] :
        flat \in {Some(TRUE), Some(FALSE)},
        vk \in OptOf({Bytes(KEYREG_VOTE_KEY_LENGTH, 1), Bytes(KEYREG_VOTE_KEY_LENGTH - 1, 1)}),
        sk \in OptOf({Bytes(KEYREG_SELECTION_KEY_LENGTH, 2)}),
        spk \in OptOf({Bytes(KEYREG_STATE_PROOF_KEY_LENGTH, 3)}),
        vf \in OptOf(0..MaxVote), vl \in OptOf(0..MaxVote), vkd \in OptOf(0..MaxVote),
        np \in OptOf(BOOLEAN)}

\* common fields and payments
PaymentInputs ==
    {[WithVariant("pay") EXCEPT
        !.sender = Some(snd), !.note = note, !.lease = lease, !.rekeyTo = rekey,
        !.suggestedParams.genesisID = gen,
        !.paymentParams = Some([receiver |-> Some(rcv), amount |-> amt,
                                closeRemainderTo |-> close])] :
        snd \in Addresses, rcv \in Addresses, amt \in {0, 5},
        close \in OptOf(Addresses), rekey \in OptOf(Addresses),
        note \in OptOf({<<>>, <<7>>}),
        lease \in OptOf({Bytes(32, 0), Bytes(32, 9), Bytes(31, 9)}),
        gen \in {None, Some("")}}

\* the remaining variants
AssetConfigInputs ==
    {[WithVariant("acfg") EXCEPT !.assetConfigParams =
        Some([BaseAssetConfig EXCEPT
                !.assetIndex = idx, !.total = total, !.decimals = dc, !.defaultFrozen = df,
                !.manager = m, !.clawback = m, !.unitName = un, !.assetName = un,
                !.assetMetadataHash = am])] :
        idx \in OptOf({0, 7}), total \in OptOf({0, 100}), dc \in OptOf({0, 6}),
        df \in OptOf(BOOLEAN), m \in OptOf(Addresses), un \in OptOf({"", "FOO"}),
        am \in OptOf({Bytes(32, 0), Bytes(32, 4), Bytes(33, 4)})}

AssetTransferInputs ==
    {[WithVariant("axfer") EXCEPT !.assetTransferParams =
        Some([assetIndex |-> idx, amount |-> amt, assetSender |-> asnd,
              receiver |-> Some(rcv), closeRemainderTo |-> close])] :
        idx \in {0, 7}, amt \in {0, 5}, asnd \in OptOf(Addresses), rcv \in Addresses,
        close \in OptOf(Addresses)}

AssetFreezeInputs ==
    {[WithVariant("afrz") EXCEPT !.assetFreezeParams =
        Some([assetIndex |-> idx, freezeTarget |-> Some(tgt), assetFrozen |-> fr])] :
        idx \in {0, 7}, tgt \in Addresses, fr \in BOOLEAN}

BoxLists ==
    {<<>>,
     <<[appIndex |-> 0, name |-> <<121>>]>>,
     <<[appIndex |-> 10, name |-> <<121>>]>>,
     <<[appIndex |-> 100, name |-> <<120>>], [appIndex |-> 0, name |-> <<>>]>>,
     <<[appIndex |-> 200, name |-> <<120>>], [appIndex |-> 100, name |-> <<120>>]>>}

AppCallInputs ==
    {[WithVariant("appl") EXCEPT !.appCallParams =
        Some([BaseAppCall EXCEPT
                !.appId = id, !.onComplete = oc, !.numLocalInts = nli,
                !.numGlobalByteSlices = ngb, !.extraPages = nli,
                !.approvalProgram = prog, !.appArgs = aargs, !.accounts = accts,
                !.foreignApps = Some(<<100, 200>> \o fa),
                !.foreignAssets = IF aargs = None THEN None ELSE Some(<<31>>),
                !.boxes = boxes])] :
        id \in {0, 10}, oc \in {0, 1}, nli \in OptOf({0, 3}), ngb \in OptOf({2}),
        prog \in OptOf({<<>>, <<6, 1>>}), aargs \in OptOf({<<>>, <<<<1>>, <<>>>>}),
        accts \in OptOf({<<>>, <<AddrB, ALGORAND_ZERO_ADDRESS_STRING>>}),
        fa \in {<<>>, <<10>>}, boxes \in OptOf(BoxLists)}

StateProofInputs ==
    {[WithVariant("stpf") EXCEPT !.stateProofParams =
        Some([stateProofType |-> ty, stateProof |-> sp, stateProofMessage |-> msg])] :
        ty \in OptOf({0, 1}), sp \in OptOf({<<>>, <<1, 2>>}), msg \in OptOf({<<>>, <<3>>})}

\* every optional Address slot in turn, with every address
OptionalAddressInputs ==
    {[WithVariant("pay") EXCEPT !.rekeyTo = Some(a)] : a \in Addresses}
    \cup {[WithVariant("pay") EXCEPT !.paymentParams[1].closeRemainderTo = Some(a)] :
            a \in Addresses}
    \cup {[WithVariant("acfg") EXCEPT !.assetConfigParams[1].manager = Some(a)] :
            a \in Addresses}
    \cup {[WithVariant("acfg") EXCEPT !.assetConfigParams[1].reserve = Some(a)] :
            a \in Addresses}
    \cup {[WithVariant("acfg") EXCEPT !.assetConfigParams[1].freeze = Some(a)] :
            a \in Addresses}
    \cup {[WithVariant("acfg") EXCEPT !.assetConfigParams[1].clawback = Some(a)] :
            a \in Addresses}
    \cup {[WithVariant("axfer") EXCEPT !.assetTransferParams[1].assetSender = Some(a)] :
            a \in Addresses}
    \cup {[WithVariant("axfer") EXCEPT !.assetTransferParams[1].closeRemainderTo = Some(a)] :
            a \in Addresses}

\* lease and metadata hash of every length class: empty, short, long, all zero
FixedLengthInputs ==
    {[WithVariant("pay") EXCEPT !.lease = Some(lease)] :
        lease \in {<<>>, Bytes(31, 0), Bytes(33, 9), Bytes(32, 0), Bytes(32, 9)}}
    \cup {[WithVariant("acfg") EXCEPT !.assetConfigParams[1].assetMetadataHash = Some(am)] :
            am \in {<<>>, Bytes(31, 0), Bytes(33, 4), Bytes(32, 0), Bytes(32, 4)}}

\* genesis hashes: missing, empty, short, long, all zero
GenesisHashInputs ==
    {[WithVariant(ty) EXCEPT !.suggestedParams.genesisHash = gh] :
        ty \in {"pay", "afrz"},
        gh \in OptOf({bytesToBase64(<<>>), bytesToBase64(Bytes(31, 1)),
                      bytesToBase64(Bytes(33, 1)), bytesToBase64(Bytes(32, 0))})}

\* validity windows, zero rounds included
ValidityInputs ==
    {[WithVariant(ty) EXCEPT !.suggestedParams.firstValid = fv,
                            !.suggestedParams.lastValid = lv,
                            !.suggestedParams.fee = fee] :
        ty \in {"pay", "axfer", "stpf"}, fv \in {0, 1}, lv \in OptOf({0, 1}),
        fee \in {0, 1000}}

TxnInputs ==
    ValidityInputs \cup GenesisHashInputs \cup FixedLengthInputs \cup FeeInputs \cup VariantInputs \cup KeyregInputs \cup PaymentInputs
    \cup AssetConfigInputs \cup AssetTransferInputs \cup AssetFreezeInputs
    \cup AppCallInputs \cup StateProofInputs \cup OptionalAddressInputs

\* encoded transactions as they may arrive from the wire
\* encoded application calls with one or two box references, the called app
\* id (10) or a repeated id (100) among the foreign apps
BoxWireInputs ==
    {[type |-> "appl", gh |-> Bytes(32, 1), lv |-> 1001, apbx |-> apbx] @@ apid @@ apfa :
        apid \in {EmptyObj, [apid |-> 10]},
        apfa \in {EmptyObj, [apfa |-> <<100, 200>>], [apfa |-> <<10, 100>>],
                  [apfa |-> <<100, 100>>]},
        apbx \in {<<[i |-> k, n |-> <<120>>]>> : k \in 0..3}
                 \cup {<<[n |-> <<121>>]>>, <<[i |-> 1]>>,
                       <<[i |-> 2, n |-> <<120>>], [i |-> 0, n |-> <<>>]>>}}

WireInputs ==
    {[type |-> ty, gh |-> Bytes(32, 1), lv |-> 1001] @@ extra :
        ty \in TransactionTypes \cup {"bogus"},
        extra \in {EmptyObj,
                   [grp |-> Bytes(32, 5)],
                   [grp |-> Bytes(31, 5)],
                   [grp |-> <<>>],
                   [grp |-> Bytes(32, 0)],
                   [lx |-> Bytes(32, 9)],
                   [lx |-> Bytes(32, 0)],
                   [lx |-> Bytes(33, 9)],
                   [apar |-> [am |-> Bytes(32, 4)]],
                   [apar |-> [am |-> Bytes(32, 0)]],
                   [apar |-> [am |-> Bytes(31, 4)]],
                   [rekey |-> ZeroPk],
                   [snd |-> Pk(1), fee |-> 1000, fv |-> 1]}}
    \cup {[type |-> "pay", gh |-> gh, lv |-> 1001] :
            gh \in {<<>>, Bytes(31, 1), Bytes(33, 1), Bytes(32, 0)}}
    \cup {[type |-> "pay", gh |-> Bytes(32, 1)] @@ extra :
            extra \in {EmptyObj, [lv |-> 0]}}
    \cup BoxWireInputs

(***************************************************************************)
(* The transaction pipeline: construct, encode, decode                     *)
(***************************************************************************)
Pending == Err("pending")
NoParams == [type |-> "none"]
NoPreImage == [version |-> 0, threshold |-> 0, pks |-> <<>>]
NoSignature == [len |-> 0, signer |-> <<>>, msg |-> <<>>]
NotVerified == [called |-> FALSE]
NoCall == [op |-> "none"]

InitTxn ==
    /\ \/ /\ params \in TxnInputs
          /\ pc = "params"
          /\ obj = Pending
       \/ /\ params = NoParams
          /\ pc = "encoded"
          /\ obj \in {Ok(w) : w \in WireInputs}
    /\ txn = Pending
    /\ dec = Pending
    /\ pre = NoPreImage
    /\ blobs = <<>>
    /\ merged = Pending
    /\ verified = NotVerified
    /\ call = NoCall

\* new Transaction(params)
Construct ==
    /\ pc = "params"
    /\ txn' = Transaction(params)
    /\ pc' = IF Transaction(params).ok THEN "constructed" ELSE "rejected"
    /\ UNCHANGED <<params, obj, dec, pre, blobs, merged, verified, call>>

\* txn.get_obj_for_encoding()
Encode ==
    /\ pc = "constructed"
    /\ obj' = IF canEncode(txn.val) THEN Ok(get_obj_for_encoding(txn.val))
              ELSE Err("Box ref not in foreign-apps")
    /\ pc' = IF canEncode(txn.val) THEN "encoded" ELSE "encodeFailed"
    /\ UNCHANGED <<params, txn, dec, pre, blobs, merged, verified, call>>

\* Transaction.from_obj_for_encoding(obj)
Decode ==
    /\ pc = "encoded"
    /\ dec' = from_obj_for_encoding(obj.val)
    /\ pc' = "decoded"
    /\ UNCHANGED <<params, txn, obj, pre, blobs, merged, verified, call>>

NextTxn == Construct \/ Encode \/ Decode

SpecTxn == InitTxn /\ [][NextTxn]_vars

(***************************************************************************)
(* Multisig coordination: collect blobs, merge them, verify the result     *)
(***************************************************************************)
NumSigners == 3      \* secret keys <<"sk", 1>> .. <<"sk", NumSigners>>
MaxThreshold == 3    \* thresholds 1 .. MaxThreshold
MaxMerge == 3        \* at most MaxMerge blobs are handed to one merge

SecretKeys == {<<"sk", k>> : k \in 1..NumSigners}

DistinctKeys == [j \in 1..NumSigners |-> Pk(j)]
RepeatedKey == <<Pk(1), Pk(1), Pk(2)>>

\* every threshold over the signers' distinct keys, and a 2-of-3 whose first
\* key occupies two slots
PreImages ==
    {[version |-> 1, threshold |-> thr, pks |-> DistinctKeys] :
        thr \in 1..(IF MaxThreshold < NumSigners THEN MaxThreshold ELSE NumSigners)}
    \cup {[version |-> 1, threshold |-> 2, pks |-> RepeatedKey]}

\* a pre-image of the same length with another key order
ReorderedPreImage(p) ==
    [p EXCEPT !.pks = [j \in DOMAIN p.pks |-> p.pks[Len(p.pks) + 1 - j]]]
\* a pre-image with one key less
ShorterPreImage(p) == [p EXCEPT !.pks = SubSeq(p.pks, 1, Len(p.pks) - 1)]

MsigPaymentParams(snd, amt) ==
    [WithVariant("pay") EXCEPT !.sender = Some(snd), !.paymentParams[1].amount = amt]

\* the transaction of the run: sent by a plain account or, for the 2-of-3 account
\* over distinct keys, by the multisig account itself
MsigTxnInputs(p) ==
    {MsigPaymentParams(AddrA, 1000)}
    \cup (IF p.threshold = 2 /\ p.pks = DistinctKeys
          THEN {MsigPaymentParams(encodeAddress(fromMultisigPreImg(p)), 1000)}
          ELSE {})

\* another transaction of the same sender
OtherTransaction(t) ==
    Transaction(MsigPaymentParams(encodeAddress(t.sender.publicKey), 2000)).val

\* signature bytes of the right or wrong length that no key produced
ForgedSignatures ==
    {[len |-> n, signer |-> ZeroPk, msg |-> <<>>] : n \in {SIGNATURE_LENGTH, SIGNATURE_LENGTH - 1}}

\* a blob as it may arrive from elsewhere: blob b carrying the auth-address of blob r
WithAuthAddrOf(b, r) ==
    LET o == decode(b)
        stripped == [k \in DOMAIN o \ {"sgnr"} |-> o[k]]
    IN  encode(IF "sgnr" \in DOMAIN decode(r)
               THEN ("sgnr" :> decode(r).sgnr) @@ stripped
               ELSE stripped)

\* blobs that do not belong with the signers' own: of another transaction, of
\* another pre-image, of a single signer, and of another pre-image under the
\* auth-address of an own blob
ForeignBlobs(t, p, sk, own) ==
    {partialSignTxn(OtherTransaction(t), p, sk).val,
     partialSignTxn(t, ReorderedPreImage(p), sk).val,
     signTxn(t, sk),
     WithAuthAddrOf(partialSignTxn(t, ReorderedPreImage(p), sk).val, own),
     WithAuthAddrOf(partialSignTxn(t, ShorterPreImage(p), sk).val, own)}

MetadataOf(p) ==
    [version |-> p.version, threshold |-> p.threshold,
     addrs |-> [j \in DOMAIN p.pks |-> encodeAddress(p.pks[j])]]

OkValues(R) == {r.val : r \in {x \in R : x.ok}}

MsigScenarios == UNION {{<<p, q>> : p \in MsigTxnInputs(q)} : q \in PreImages}

PartialsOf(t, q) == [sk \in SecretKeys |-> partialSignTxn(t, q, sk)]

\* partialSignTxn of the run's transaction by each secret key
PartialBySigner ==
    [s \in MsigScenarios |-> PartialsOf(Transaction(s[1]).val, s[2])]

SignerBlobsOf(t, q, partials) ==
    [empty |-> createMultisigTransaction(t, MetadataOf(q)),
     partial |-> OkValues({partials[sk] : sk \in SecretKeys}),
     external |->
        OkValues({partialSignWithMultisigSignature(
                    t, q, encodeAddress(keyPairFromSecretKey(sk).publicKey), sig) :
                  sk \in SecretKeys, sig \in ForgedSignatures}),
     foreign |-> ForeignBlobs(t, q, <<"sk", 1>>, partials[<<"sk", 1>>].val)]

\* what the signers of a scenario can produce for the run's transaction:
\* the results of createMultisigTransaction, partialSignTxn and
\* partialSignWithMultisigSignature, and the blobs that arrive from elsewhere
SignerBlobs ==
    [s \in MsigScenarios |->
        SignerBlobsOf(Transaction(s[1]).val, s[2], PartialBySigner[s])]

VerifyInputsOf(t, q) ==
    {<<bytesToSign(t), fromMultisigPreImg(q)>>,
     <<bytesToSign(OtherTransaction(t)), fromMultisigPreImg(q)>>,
     <<bytesToSign(t), fromMultisigPreImg(ReorderedPreImage(q))>>}

\* the (toBeVerified, publicKey) arguments tried on a merged blob
VerifyInputs ==
    [s \in MsigScenarios |-> VerifyInputsOf(Transaction(s[1]).val, s[2])]

InitMsig ==
    /\ pre \in PreImages
    /\ params \in MsigTxnInputs(pre)
    /\ txn = Transaction(params)
    /\ pc = "collect"
    /\ obj = Pending
    /\ dec = Pending
    /\ blobs = <<>>
    /\ merged = Pending
    /\ verified = NotVerified
    /\ call = NoCall

Collect(b) ==
    /\ pc = "collect"
    /\ Len(blobs) < MaxMerge
    /\ blobs' = Append(blobs, b)
    /\ UNCHANGED <<pc, params, txn, obj, dec, pre, merged, verified, call>>

\* createMultisigTransaction(txn, metadata)
AddEmpty == \E b \in {SignerBlobs[<<params, pre>>].empty} : Collect(b)

\* partialSignTxn(txn, pre, sk), for a key of the pre-image
AddPartial == \E b \in SignerBlobs[<<params, pre>>].partial : Collect(b)

\* partialSignWithMultisigSignature(txn, pre, signerAddr, signature)
AddExternal == \E b \in SignerBlobs[<<params, pre>>].external : Collect(b)

\* a blob of another transaction, another pre-image or another signer arrives
AddForeign ==
    \E b \in SignerBlobs[<<params, pre>>].foreign :
        /\ \A j \in DOMAIN blobs : blobs[j] \notin SignerBlobs[<<params, pre>>].foreign
        /\ Collect(b)

\* mergeMultisigTransactions(blobs)
Merge ==
    /\ pc = "collect"
    /\ merged' = mergeMultisigTransactions(blobs)
    /\ pc' = "merged"
    /\ UNCHANGED <<params, txn, obj, dec, pre, blobs, verified, call>>

\* verifyMultisig(toBeVerified, msig, publicKey) on the merged blob
Verify ==
    /\ pc = "merged"
    /\ merged.ok
    /\ \E in \in VerifyInputs[<<params, pre>>] :
            verified' = [called |-> TRUE, toBeVerified |-> in[1], publicKey |-> in[2],
                         result |-> verifyMultisig(in[1], decode(merged.val).msig, in[2])]
    /\ pc' = "verified"
    /\ UNCHANGED <<params, txn, obj, dec, pre, blobs, merged, call>>

NextMsig == AddEmpty \/ AddPartial \/ AddExternal \/ AddForeign \/ Merge \/ Verify

SpecMsig == InitMsig /\ [][NextMsig]_vars

(***************************************************************************)
(* Signing: single signatures on the transaction, and one multisig blob    *)
(* that is built and then extended by append-sign and merge operations.    *)
(* merged holds the multisig blob accumulated so far, call the last        *)
(* operation with its arguments and what it returned or threw.             *)
(***************************************************************************)
\* a key that belongs to no pre-image
OutsiderKey == <<"sk", NumSigners + 1>>
SigningKeys == SecretKeys \cup {OutsiderKey}
SignerAddresses == {encodeAddress(keyPairFromSecretKey(sk).publicKey) : sk \in SigningKeys}

\* signatures handed in from outside: a genuine one of the first signer, and
\* bytes of the right and of the wrong length that no key produced
RawSignatures(t) == {rawSignTxn(t, <<"sk", 1>>)} \cup ForgedSignatures

\* pre-images that differ from p in the key order, the number of keys, the
\* threshold or the version
AlteredPreImages(p) ==
    {ReorderedPreImage(p), ShorterPreImage(p),
     [p EXCEPT !.threshold = IF @ = 1 THEN 2 ELSE @ - 1],
     [p EXCEPT !.version = @ + 1]}

\* multisig blobs the operations produce for a scenario, the run's own
\* transaction and pre-image or not
OperationBlobsOf(t, q, partials) ==
    {createMultisigTransaction(t, MetadataOf(q))}
    \cup OkValues({partials[sk] : sk \in SecretKeys})
    \cup {partialSignTxn(OtherTransaction(t), q, <<"sk", 1>>).val,
          createMultisigTransaction(t, MetadataOf(ShorterPreImage(q)))}
    \cup {partialSignTxn(t, a, <<"sk", 1>>).val :
            a \in AlteredPreImages(q) \ {ShorterPreImage(q)}}

OperationBlobs ==
    [s \in MsigScenarios |->
        OperationBlobsOf(Transaction(s[1]).val, s[2], PartialBySigner[s])]

InitSign ==
    /\ pre \in PreImages
    /\ params \in MsigTxnInputs(pre)
    /\ txn = Transaction(params)
    /\ pc = "sign"
    /\ obj = Pending
    /\ dec = Pending
    /\ blobs = <<>>
    /\ merged = Pending
    /\ verified = NotVerified
    /\ call = NoCall

\* an operation on the transaction alone returns or throws; the run ends
Returns(c, r) ==
    /\ call' = ("result" :> r) @@ c
    /\ pc' = "done"
    /\ UNCHANGED <<params, txn, obj, dec, pre, blobs, merged, verified>>

\* an operation returns a multisig blob, which the run goes on with, or
\* throws, which ends the run
ReturnsBlob(c, r) ==
    /\ call' = ("result" :> r) @@ c
    /\ merged' = IF r.ok THEN r ELSE merged
    /\ pc' = IF r.ok THEN "sign" ELSE "done"
    /\ UNCHANGED <<params, txn, obj, dec, pre, blobs, verified>>

\* an operation returns { txID, blob }, with whose blob the run goes on, or
\* throws, which ends the run
ReturnsTxIDAndBlob(c, r) ==
    /\ call' = ("result" :> r) @@ c
    /\ merged' = IF r.ok THEN Ok(r.val.blob) ELSE merged
    /\ pc' = IF r.ok THEN "sign" ELSE "done"
    /\ UNCHANGED <<params, txn, obj, dec, pre, blobs, verified>>

\* txn.signTxn(sk)
SignTxn ==
    /\ pc = "sign"
    /\ merged = Pending
    /\ \E sk \in SigningKeys :
            Returns([op |-> "signTxn", sk |-> sk], Ok(signTxn(txn.val, sk)))

\* txn.attachSignature(signerAddr, signature)
AttachSignature ==
    /\ pc = "sign"
    /\ merged = Pending
    /\ \E a \in SignerAddresses \cup {encodeAddress(txn.val.sender.publicKey)},
          sig \in RawSignatures(txn.val) :
            Returns([op |-> "attachSignature", signerAddr |-> a, signature |-> sig],
                    attachSignature(txn.val, a, sig))

\* createMultisigTransaction(txn, metadata)
CreateMultisig ==
    /\ pc = "sign"
    /\ merged = Pending
    /\ ReturnsBlob([op |-> "createMultisigTransaction", metadata |-> MetadataOf(pre)],
                   Ok(createMultisigTransaction(txn.val, MetadataOf(pre))))

\* partialSignTxn(txn, pre, sk)
PartialSignTxn ==
    /\ pc = "sign"
    /\ merged = Pending
    /\ \E sk \in SigningKeys :
            ReturnsBlob([op |-> "partialSignTxn", sk |-> sk],
                        partialSignTxn(txn.val, pre, sk))

\* partialSignWithMultisigSignature(txn, pre, signerAddr, signature)
PartialSignExternal ==
    /\ pc = "sign"
    /\ merged = Pending
    /\ \E a \in SignerAddresses, sig \in RawSignatures(txn.val) :
            ReturnsBlob([op |-> "partialSignWithMultisigSignature",
                         signerAddr |-> a, signature |-> sig],
                        partialSignWithMultisigSignature(txn.val, pre, a, sig))

\* signMultisigTransaction(txn, metadata, sk)
SignMultisig ==
    /\ pc = "sign"
    /\ merged = Pending
    /\ \E sk \in SigningKeys :
            ReturnsTxIDAndBlob(
                [op |-> "signMultisigTransaction", metadata |-> MetadataOf(pre), sk |-> sk],
                signMultisigTransaction(txn.val, MetadataOf(pre), sk))

\* appendSignMultisigTransaction(blob, metadata, sk), under the blob's own
\* pre-image or an altered one
AppendSign ==
    /\ pc = "sign"
    /\ merged.ok
    /\ \E sk \in SigningKeys, q \in {pre} \cup AlteredPreImages(pre) :
            ReturnsTxIDAndBlob(
                [op |-> "appendSignMultisigTransaction", blob |-> merged.val,
                 metadata |-> MetadataOf(q), sk |-> sk],
                appendSignMultisigTransaction(merged.val, MetadataOf(q), sk))

\* appendSignRawMultisigSignature(blob, metadata, signerAddr, signature)
AppendRaw ==
    /\ pc = "sign"
    /\ merged.ok
    /\ \E a \in SignerAddresses, sig \in RawSignatures(txn.val),
          q \in {pre, ReorderedPreImage(pre)} :
            ReturnsTxIDAndBlob(
                [op |-> "appendSignRawMultisigSignature", blob |-> merged.val,
                 metadata |-> MetadataOf(q), signerAddr |-> a, signature |-> sig],
                appendSignRawMultisigSignature(merged.val, MetadataOf(q), a, sig))

\* mergeMultisigTransactions([blob, other]) with another blob the operations
\* produced
MergeWith ==
    /\ pc = "sign"
    /\ merged.ok
    /\ \E b \in OperationBlobs[<<params, pre>>] :
            ReturnsBlob([op |-> "mergeMultisigTransactions", blob |-> merged.val,
                         other |-> b],
                        mergeMultisigTransactions(<<merged.val, b>>))

\* mergeMultisigTransactions([blob, other]) with a blob that arrives from
\* elsewhere
MergeForeign ==
    /\ pc = "sign"
    /\ merged.ok
    /\ \E b \in SignerBlobs[<<params, pre>>].foreign :
            ReturnsBlob([op |-> "mergeMultisigTransactions", blob |-> merged.val,
                         other |-> b],
                        mergeMultisigTransactions(<<merged.val, b>>))

NextSign ==
    SignTxn \/ AttachSignature \/ CreateMultisig \/ PartialSignTxn
    \/ PartialSignExternal \/ SignMultisig \/ AppendSign \/ AppendRaw \/ MergeWith
    \/ MergeForeign

SpecSign == InitSign /\ [][NextSign]_vars

(***************************************************************************)
(* Properties of the multisig coordination (checked under SpecMsig)        *)
(***************************************************************************)
HasMsig(b) == "msig" \in DOMAIN decode(b)
SubsigsOf(b) == decode(b).msig.subsig
SignedSlots(b) == {j \in DOMAIN SubsigsOf(b) : "s" \in DOMAIN SubsigsOf(b)[j]}
\* the (slot, signature) entries a blob carries
Entries(b) == {<<j, SubsigsOf(b)[j].s>> : j \in SignedSlots(b)}
InputEntries == UNION {Entries(blobs[i]) : i \in DOMAIN blobs}

SameAuthAddr(a, b) ==
    /\ ("sgnr" \in DOMAIN decode(a)) <=> ("sgnr" \in DOMAIN decode(b))
    /\ "sgnr" \in DOMAIN decode(a) => decode(a).sgnr = decode(b).sgnr

SamePreImage(a, b) ==
    /\ decode(a).msig.v = decode(b).msig.v
    /\ decode(a).msig.thr = decode(b).msig.thr
    /\ Len(SubsigsOf(a)) = Len(SubsigsOf(b))
    /\ \A j \in DOMAIN SubsigsOf(a) : SubsigsOf(a)[j].pk = SubsigsOf(b)[j].pk

\* two or more multisig blobs of one transaction, one auth-address, one pre-image
MutuallyCompatible ==
    /\ Len(blobs) >= 2
    /\ \A i \in DOMAIN blobs : HasMsig(blobs[i])
    /\ \A i \in DOMAIN blobs :
        /\ decode(blobs[i]).txn = decode(blobs[1]).txn
        /\ SameAuthAddr(blobs[i], blobs[1])
        /\ SamePreImage(blobs[i], blobs[1])

\* no slot for which two blobs carry different signatures
ConflictFree == \A e \in InputEntries : \A f \in InputEntries : e[1] = f[1] => e[2] = f[2]

\* C1: merging mutually compatible blobs succeeds exactly when no slot has two
\* different signatures among the inputs; on success every slot of the result
\* is signed iff some input blob signs it, with that signature, and the slots
\* keep their public keys; on a conflict the subsig-mismatch error is thrown.
C1_MergeSlots ==
    (pc = "merged" /\ MutuallyCompatible) =>
        /\ merged.ok <=> ConflictFree
        /\ merged.ok =>
            /\ Entries(merged.val) = InputEntries
            /\ SamePreImage(merged.val, blobs[1])
        /\ ~merged.ok => merged.err = MULTISIG_MERGE_SIG_MISMATCH_ERROR_MSG

\* a merge that adopted a signature into a slot the first blob left unsigned
\* and met an equal signature in a slot that was already signed
C1_Witness ==
    /\ pc = "merged"
    /\ MutuallyCompatible
    /\ merged.ok
    /\ SignedSlots(merged.val) \ SignedSlots(blobs[1]) # {}
    /\ \E i \in DOMAIN blobs : i > 1 /\ SignedSlots(blobs[i]) \cap SignedSlots(blobs[1]) # {}

TxIDOfBlob(b) == txID(from_obj_for_encoding(decode(b).txn).val)

\* the conditions under which no merged blob may come back
MergeMustFail ==
    \/ Len(blobs) < 2
    \/ \E i \in DOMAIN blobs : ~HasMsig(blobs[i])
    \/ \E i \in DOMAIN blobs :
        /\ i > 1
        /\ HasMsig(blobs[1])
        /\ HasMsig(blobs[i])
        /\ \/ TxIDOfBlob(blobs[i]) # TxIDOfBlob(blobs[1])
           \/ ~SameAuthAddr(blobs[i], blobs[1])
           \/ Len(SubsigsOf(blobs[i])) # Len(SubsigsOf(blobs[1]))
           \/ msigAddrOf(decode(blobs[i]).msig) # msigAddrOf(decode(blobs[1]).msig)

\* C2: the merge fails, returning no blob, when fewer than two blobs are given,
\* a blob lacks msig, or a later blob differs from the first in transaction ID,
\* auth-address, subsig length or pre-image-derived multisig address.
C2_MergeFailures == (pc = "merged" /\ MergeMustFail) => ~merged.ok

\* a failed merge whose blobs agree on transaction, auth-address and length
\* and differ only in the multisig address their pre-images derive
C2_Witness ==
    /\ pc = "merged"
    /\ ~merged.ok
    /\ Len(blobs) >= 2
    /\ \A i \in DOMAIN blobs :
        /\ HasMsig(blobs[i])
        /\ decode(blobs[i]).txn = decode(blobs[1]).txn
        /\ SameAuthAddr(blobs[i], blobs[1])
        /\ Len(SubsigsOf(blobs[i])) = Len(SubsigsOf(blobs[1]))
    /\ \E i \in DOMAIN blobs :
        msigAddrOf(decode(blobs[i]).msig) # msigAddrOf(decode(blobs[1]).msig)

MergesTo(L, E) ==
    LET r == mergeMultisigTransactions(L) IN r.ok /\ Entries(r.val) = E

SwapFirstTwo(L) == <<L[2], L[1]>> \o SubSeq(L, 3, Len(L))
Rotate(L) == SubSeq(L, 2, Len(L)) \o <<L[1]>>
MergedPrefix(L, k) ==
    <<mergeMultisigTransactions(SubSeq(L, 1, k)).val>> \o SubSeq(L, k + 1, Len(L))
MergedSuffix(L, k) ==
    SubSeq(L, 1, k) \o <<mergeMultisigTransactions(SubSeq(L, k + 1, Len(L))).val>>

\* C3: on conflict-free inputs the entries of a merge do not depend on the
\* order of the blobs (exchanging the first two and rotating the list generate
\* every order), nor on merging a prefix or a suffix first, and merging a blob
\* with itself yields exactly its entries.
C3_MergeAlgebra ==
    (pc = "merged" /\ merged.ok) =>
        /\ MergesTo(SwapFirstTwo(blobs), Entries(merged.val))
        /\ MergesTo(Rotate(blobs), Entries(merged.val))
        /\ \A k \in 2..(Len(blobs) - 1) :
                MergesTo(MergedPrefix(blobs, k), Entries(merged.val))
        /\ \A k \in 1..(Len(blobs) - 2) :
                MergesTo(MergedSuffix(blobs, k), Entries(merged.val))
        /\ \A i \in DOMAIN blobs : MergesTo(<<blobs[i], blobs[i]>>, Entries(blobs[i]))

\* three blobs with three different sets of entries merged into one
C3_Witness ==
    /\ pc = "merged"
    /\ merged.ok
    /\ Len(blobs) = 3
    /\ Cardinality({Entries(blobs[i]) : i \in DOMAIN blobs}) = 3
    /\ \A i \in DOMAIN blobs : Entries(blobs[i]) # {} /\ Entries(blobs[i]) # Entries(merged.val)

MergedMsig == decode(merged.val).msig
MergedSigned == {j \in DOMAIN MergedMsig.subsig : "s" \in DOMAIN MergedMsig.subsig[j]}
\* the signed slots whose signature nacl.verify accepts for the bytes verified
MergedVerifying ==
    {j \in MergedSigned :
        verify(verified.toBeVerified, MergedMsig.subsig[j].s, MergedMsig.subsig[j].pk)}
MergedDerivesTo(pk) ==
    fromMultisigPreImg(
        [version |-> MergedMsig.v, threshold |-> MergedMsig.thr,
         pks |-> [j \in DOMAIN MergedMsig.subsig |-> MergedMsig.subsig[j].pk]]) = pk

\* C4: verifyMultisig returns true exactly when the pre-image of msig derives
\* to the expected public key, at least thr slots are signed and at least thr
\* signed slots verify against their pk.
C4_VerifyThreshold ==
    pc = "verified" =>
        (verified.result <=>
            /\ MergedDerivesTo(verified.publicKey)
            /\ Cardinality(MergedSigned) >= MergedMsig.thr
            /\ Cardinality(MergedVerifying) >= MergedMsig.thr)

\* a true result although one slot is unsigned and one signed slot does not verify
C4_Witness ==
    /\ pc = "verified"
    /\ verified.result
    /\ MergedSigned # DOMAIN MergedMsig.subsig
    /\ MergedVerifying # MergedSigned

\* C5 as stated: true iff at least threshold slots are signed, every signed
\* slot verifies, and the pre-image address equals the expected public key.
C5_EverySignedSlotVerifies ==
    pc = "verified" =>
        (verified.result <=>
            /\ Cardinality(MergedSigned) >= MergedMsig.thr
            /\ \A j \in MergedSigned :
                verify(verified.toBeVerified, MergedMsig.subsig[j].s, MergedMsig.subsig[j].pk)
            /\ MergedDerivesTo(verified.publicKey))

\* C5 amended: true iff at least threshold slots are signed, the signed slots
\* that fail verification leave at least threshold that verify, and the
\* pre-image address equals the expected public key.
C5_ThresholdSignedSlotsVerify ==
    pc = "verified" =>
        (verified.result <=>
            /\ Cardinality(MergedSigned) >= MergedMsig.thr
            /\ Cardinality(MergedSigned \ MergedVerifying)
                    <= Cardinality(MergedSigned) - MergedMsig.thr
            /\ MergedDerivesTo(verified.publicKey))

\* a true result with exactly threshold verifying slots beside a signed slot
\* that does not verify
C5_Witness ==
    /\ pc = "verified"
    /\ verified.result
    /\ Cardinality(MergedVerifying) = MergedMsig.thr
    /\ Cardinality(MergedSigned) > MergedMsig.thr

SlotsOfKey(pk) == {j \in DOMAIN pre.pks : pre.pks[j] = pk}
\* the signers whose partialSignTxn output is among the blobs
PartialSigners ==
    {sk \in SecretKeys :
        /\ PartialBySigner[<<params, pre>>][sk].ok
        /\ \E i \in DOMAIN blobs : blobs[i] = PartialBySigner[<<params, pre>>][sk].val}
\* every blob is the partial signature of a signer whose key sits in one slot
OnlyPartials ==
    /\ Len(blobs) >= 2
    /\ \A i \in DOMAIN blobs :
        \E sk \in PartialSigners : blobs[i] = PartialBySigner[<<params, pre>>][sk].val
    /\ \A sk \in PartialSigners :
        Cardinality(SlotsOfKey(keyPairFromSecretKey(sk).publicKey)) = 1
OwnArguments ==
    /\ verified.toBeVerified = bytesToSign(txn.val)
    /\ verified.publicKey = fromMultisigPreImg(pre)

\* C6: merging the partial-sign blobs of k signers, in any order, succeeds with
\* exactly the k slots of their keys signed; verifying the merged blob over the
\* transaction's bytesToSign with the multisig address is true when k >= thr,
\* and any verification with fewer than thr signed slots is false.
C6_SignMergeVerify ==
    /\ (pc \in {"merged", "verified"} /\ OnlyPartials) =>
        /\ merged.ok
        /\ SignedSlots(merged.val) =
                UNION {SlotsOfKey(keyPairFromSecretKey(sk).publicKey) : sk \in PartialSigners}
        /\ Cardinality(SignedSlots(merged.val)) = Cardinality(PartialSigners)
    /\ (pc = "verified" /\ OnlyPartials /\ OwnArguments
            /\ Cardinality(PartialSigners) >= pre.threshold) => verified.result
    /\ (pc = "verified" /\ Cardinality(MergedSigned) < MergedMsig.thr) => ~verified.result

\* two or more signers, at least threshold of them, merged and verified
C6_Witness ==
    /\ pc = "verified"
    /\ OnlyPartials
    /\ OwnArguments
    /\ Cardinality(PartialSigners) >= 2
    /\ Cardinality(PartialSigners) >= pre.threshold
    /\ Cardinality(MergedSigned) = Cardinality(PartialSigners)
    /\ verified.result

(***************************************************************************)
(* Properties of the transaction core (checked under SpecTxn)              *)
(***************************************************************************)
\* C7: for every accepted parameter record, decoding the canonical encoding
\* of the constructed transaction succeeds and yields a transaction with the
\* same canonical fields, keyreg transactions with a zero voteFirst, voteLast
\* or voteKeyDilution included.
C7_RoundTrip ==
    (pc = "decoded" /\ txn.ok) =>
        /\ dec.ok
        /\ get_obj_for_encoding(dec.val) = obj.val

KeyregAbsent(kp) ==
    /\ kp.voteKey = None
    /\ kp.selectionKey = None
    /\ kp.stateProofKey = None
    /\ kp.voteFirst = None
    /\ kp.voteLast = None
    /\ kp.voteKeyDilution = None
KeyregOffline(kp) == KeyregAbsent(kp) /\ kp.nonParticipation \in {None, Some(FALSE)}
KeyregOnline(kp) ==
    /\ kp.voteKey # None
    /\ kp.selectionKey # None
    /\ kp.voteFirst # None
    /\ kp.voteLast # None
    /\ kp.voteKeyDilution # None
    /\ kp.nonParticipation \in {None, Some(FALSE)}
KeyregNonParticipation(kp) == KeyregAbsent(kp) /\ kp.nonParticipation = Some(TRUE)

\* a keyreg record whose keys have their lengths and which is accepted once
\* its keyreg sub-record is replaced by the offline one
KeyregOtherwiseValid(p) ==
    /\ p.type = "keyreg"
    /\ p.keyregParams # None
    /\ p.keyregParams[1].voteKey \in {None, Some(Bytes(KEYREG_VOTE_KEY_LENGTH, 1))}
    /\ Transaction([p EXCEPT !.keyregParams = Some(BaseKeyreg)]).ok

\* C8: a keyreg parameter record, valid otherwise, is accepted exactly when it
\* is offline, online or non-participation.
C8_KeyregShapes ==
    (pc \in {"constructed", "rejected"} /\ KeyregOtherwiseValid(params)) =>
        (txn.ok <=>
            \/ KeyregOffline(params.keyregParams[1])
            \/ KeyregOnline(params.keyregParams[1])
            \/ KeyregNonParticipation(params.keyregParams[1]))

\* a rejected record with nonParticipation true and a vote field set
C8_Witness ==
    /\ pc = "rejected"
    /\ KeyregOtherwiseValid(params)
    /\ params.keyregParams[1].nonParticipation = Some(TRUE)
    /\ params.keyregParams[1].voteFirst # None
    /\ params.keyregParams[1].voteKey = None

FlatFee == params.suggestedParams.flatFee = Some(TRUE)

\* C9 as stated: the size-dependent fee is the suggested fee times the length
\* of the canonical encoding of the transaction plus 75, at least minFee.
C9_FeeFromEncodingOfTransaction ==
    pc = "constructed" =>
        IF FlatFee
        THEN txn.val.fee = params.suggestedParams.fee
        ELSE txn.val.fee =
                Max(params.suggestedParams.minFee,
                    params.suggestedParams.fee
                        * (encodedLength(get_obj_for_encoding(txn.val))
                            + NUM_ADDL_BYTES_AFTER_SIGNING))

\* C9 amended: the length is that of the encoding taken while the fee field
\* still holds the suggested fee.
C9_FeeFromEncodingWithSuggestedFee ==
    pc = "constructed" =>
        IF FlatFee
        THEN txn.val.fee = params.suggestedParams.fee
        ELSE txn.val.fee =
                Max(params.suggestedParams.minFee,
                    params.suggestedParams.fee
                        * (encodedLength(get_obj_for_encoding(
                                [txn.val EXCEPT !.fee = params.suggestedParams.fee]))
                            + NUM_ADDL_BYTES_AFTER_SIGNING))

\* a size-dependent fee above a positive minFee
C9_Witness ==
    /\ pc = "constructed"
    /\ ~FlatFee
    /\ params.suggestedParams.minFee > 0
    /\ txn.val.fee > params.suggestedParams.minFee
    /\ txn.val.fee > params.suggestedParams.fee

PayloadOf(t, ty) ==
    CASE ty = "pay" -> t.payment
      [] ty = "keyreg" -> t.keyreg
      [] ty = "acfg" -> t.assetConfig
      [] ty = "axfer" -> t.assetTransfer
      [] ty = "afrz" -> t.assetFreeze
      [] ty = "appl" -> t.applicationCall
      [] ty = "stpf" -> t.stateProof
PopulatedPayloads(t) == {ty \in TransactionTypes : PayloadOf(t, ty) # None}
SuppliedParams(p) == {fieldsPresent(p)[j] : j \in DOMAIN fieldsPresent(p)}

\* C10: a constructed or decoded transaction has exactly one payload populated,
\* the one of its type; a record with an unknown type, with no or several
\* sub-records, or with a sub-record of another type is rejected.
C10_OneVariant ==
    /\ txn.ok => PopulatedPayloads(txn.val) = {txn.val.type}
    /\ dec.ok => PopulatedPayloads(dec.val) = {dec.val.type}
    /\ (pc \in {"constructed", "rejected"}
            /\ (~isTransactionType(params.type) \/ SuppliedParams(params) # {params.type}))
        => ~txn.ok

\* a record of a known type rejected for carrying the one sub-record of another type
C10_Witness ==
    /\ pc = "rejected"
    /\ isTransactionType(params.type)
    /\ Cardinality(SuppliedParams(params)) = 1
    /\ params.type \notin SuppliedParams(params)

(***************************************************************************)
(* Properties of the constructor's and decoder's field checks (SpecTxn)    *)
(***************************************************************************)
ZeroAddress == decodeAddress(ALGORAND_ZERO_ADDRESS_STRING)

\* the optional Address slots of a parameter record, as supplied
SuppliedOptionalAddresses(p) ==
    {p.rekeyTo}
    \cup (IF p.paymentParams # None THEN {p.paymentParams[1].closeRemainderTo} ELSE {})
    \cup (IF p.assetConfigParams # None
          THEN {p.assetConfigParams[1].manager, p.assetConfigParams[1].reserve,
                p.assetConfigParams[1].freeze, p.assetConfigParams[1].clawback}
          ELSE {})
    \cup (IF p.assetTransferParams # None
          THEN {p.assetTransferParams[1].assetSender,
                p.assetTransferParams[1].closeRemainderTo}
          ELSE {})

\* the optional Address fields of a Transaction
OptionalAddressFields(t) ==
    {t.rekeyTo}
    \cup (IF t.payment # None THEN {t.payment[1].closeRemainderTo} ELSE {})
    \cup (IF t.assetConfig # None
          THEN {t.assetConfig[1].assetManager, t.assetConfig[1].assetReserve,
                t.assetConfig[1].assetFreeze, t.assetConfig[1].assetClawback}
          ELSE {})
    \cup (IF t.assetTransfer # None
          THEN {t.assetTransfer[1].sender, t.assetTransfer[1].closeRemainderTo}
          ELSE {})

\* the parameter record with every supplied required Address replaced by a
WithRequiredAddresses(p, a) ==
    [p EXCEPT
        !.sender = IF @ = None THEN None ELSE Some(a),
        !.paymentParams =
            IF @ = None THEN None
            ELSE Some([@[1] EXCEPT !.receiver = IF @ = None THEN None ELSE Some(a)]),
        !.assetTransferParams =
            IF @ = None THEN None
            ELSE Some([@[1] EXCEPT !.receiver = IF @ = None THEN None ELSE Some(a)]),
        !.assetFreezeParams =
            IF @ = None THEN None
            ELSE Some([@[1] EXCEPT !.freezeTarget = IF @ = None THEN None ELSE Some(a)])]

Constructing == params # NoParams /\ txn # Pending

\* C11: construction fails whenever the zero address is supplied in an
\* optional Address slot (rekeyTo, payment closeRemainderTo, asset manager,
\* reserve, freeze, clawback, asset-transfer assetSender, closeRemainderTo),
\* so no constructed or decoded Transaction holds the zero address in an
\* optional Address field; a zero address in a required Address slot
\* (sender, receiver, freeze target) never changes whether construction
\* succeeds.
C11_ZeroAddressOnlyInRequiredSlots ==
    /\ Constructing /\ Some(ALGORAND_ZERO_ADDRESS_STRING) \in SuppliedOptionalAddresses(params)
        => ~txn.ok
    /\ txn.ok => Some(ZeroAddress) \notin OptionalAddressFields(txn.val)
    /\ dec.ok => Some(ZeroAddress) \notin OptionalAddressFields(dec.val)
    /\ Constructing =>
        /\ txn.ok = Transaction(WithRequiredAddresses(params, AddrA)).ok
        /\ txn.ok = Transaction(WithRequiredAddresses(params, ALGORAND_ZERO_ADDRESS_STRING)).ok

\* an asset configuration rejected for a zero reserve address alone, and
\* the same parameters accepted with a zero sender
C11_Witness ==
    /\ pc = "rejected"
    /\ params.type = "acfg"
    /\ params.assetConfigParams # None
    /\ params.assetConfigParams[1].reserve = Some(ALGORAND_ZERO_ADDRESS_STRING)
    /\ txn.err = "Invalid asset config params"
    /\ Transaction([params EXCEPT !.assetConfigParams[1].reserve = None,
                                  !.sender = Some(ALGORAND_ZERO_ADDRESS_STRING)]).ok

\* the lease and metadata hash supplied to the constructor, and those held by
\* a Transaction
SuppliedFixedLength(p) ==
    {p.lease}
    \cup (IF p.assetConfigParams # None
          THEN {p.assetConfigParams[1].assetMetadataHash} ELSE {})

FixedLengthFields(t) ==
    {t.lease}
    \cup (IF t.assetConfig # None THEN {t.assetConfig[1].assetMetadataHash} ELSE {})

WireFixedLength(e) ==
    (IF "lx" \in DOMAIN e THEN {e.lx} ELSE {})
    \cup (IF "grp" \in DOMAIN e THEN {e.grp} ELSE {})
    \cup (IF "apar" \in DOMAIN e /\ "am" \in DOMAIN e.apar /\ e.type = "acfg"
          THEN {e.apar.am} ELSE {})

\* C12: a lease or assetMetadataHash supplied with a length other than 32
\* bytes makes construction fail, and a lease, metadata hash or group of
\* another length makes decoding fail; a 32-byte all-zero lease or metadata
\* hash is stored as absent; hence a lease or metadata hash that is present
\* has exactly 32 bytes, not all zero, and a group has 32 bytes or none.
C12_FixedLengthFields ==
    /\ Constructing =>
        \A v \in SuppliedFixedLength(params) :
            v # None /\ Len(v[1]) # 32 => ~txn.ok
    /\ dec # Pending =>
        \A b \in WireFixedLength(obj.val) : Len(b) # 32 => ~dec.ok
    /\ txn.ok /\ params.lease = Some(Bytes(32, 0)) => txn.val.lease = None
    /\ txn.ok /\ params.assetConfigParams # None
        /\ params.assetConfigParams[1].assetMetadataHash = Some(Bytes(32, 0))
        => txn.val.assetConfig[1].assetMetadataHash = None
    /\ \A r \in {txn, dec} :
        r.ok =>
            /\ \A v \in FixedLengthFields(r.val) :
                    v # None => Len(v[1]) = 32 /\ ~uint8ArrayIsEmpty(v[1])
            /\ Len(r.val.group) \in {0, 32}

\* an all-zero lease dropped by a successful construction, where the same
\* parameters with a 31-byte lease are rejected
C12_Witness ==
    /\ txn.ok
    /\ params.lease = Some(Bytes(32, 0))
    /\ txn.val.lease = None
    /\ ~Transaction([params EXCEPT !.lease = Some(Bytes(31, 9))]).ok

\* C13: every successfully constructed or decoded Transaction has a
\* genesisHash of exactly 32 bytes, and construction with a genesis hash of
\* any other length is rejected.
C13_GenesisHashLength ==
    /\ Constructing /\ params.suggestedParams.genesisHash # None
        /\ Len(base64ToBytes(params.suggestedParams.genesisHash[1])) # 32
        => ~txn.ok
    /\ \A r \in {txn, dec} : r.ok => Len(r.val.genesisHash) = 32

(***************************************************************************)
(* Properties of get_obj_for_encoding (SpecTxn)                            *)
(***************************************************************************)
AddressKeys ==
    {"snd", "rekey", "rcv", "close", "arcv", "aclose", "asnd", "fadd", "m", "r", "f", "c"}

\* the default of the field stored under key k: zero, false, the empty
\* string, the all-zero address, the empty map, the empty byte string or array
IsDefaultValue(k, v) ==
    CASE k \in IntKeys -> v = 0
      [] k \in BoolKeys -> v = FALSE
      [] k \in StrKeys -> Len(v) = 0
      [] k \in MapKeys -> DOMAIN v = {}
      [] k \in AddressKeys -> uint8ArrayIsEmpty(v)
      [] OTHER -> Len(v) = 0

\* no key of o outside K, nor of a map nested in o, holds a default value
DefaultsOmittedExcept(o, K) ==
    \A k \in DOMAIN o \ K :
        /\ ~IsDefaultValue(k, o[k])
        /\ k \in MapKeys => \A h \in DOMAIN o[k] : ~IsDefaultValue(h, o[k][h])

Encoded == params # NoParams /\ obj.ok

\* C14: in the structure produced by get_obj_for_encoding every field whose
\* value equals its default (zero integer, empty byte string or array,
\* all-zero address, false boolean) has no key, the state-proof fields
\* spmsg and sp alone excepted; a zero fee, firstValid, lastValid, amount or
\* asset id has no key.
C14_DefaultsOmitted ==
    Encoded => DefaultsOmittedExcept(obj.val, {"spmsg", "sp"})

(***************************************************************************)
(* Properties of the signing operations (SpecSign)                         *)
(***************************************************************************)
Called(op) == call.op = op
SenderKey == txn.val.sender.publicKey

\* C15: the envelope of signTxn(sk) contains sgnr iff the public key of sk
\* differs from the sender's, and sgnr is then that public key; the envelope
\* of attachSignature(signerAddr, sig) contains sgnr iff signerAddr differs
\* from the sender's address, and sgnr is then signerAddr's public key.
C15_AuthAddrOnSign ==
    /\ Called("signTxn") =>
        /\ "sgnr" \in DOMAIN decode(call.result.val)
            <=> keyPairFromSecretKey(call.sk).publicKey # SenderKey
        /\ "sgnr" \in DOMAIN decode(call.result.val)
            => decode(call.result.val).sgnr = keyPairFromSecretKey(call.sk).publicKey
    /\ Called("attachSignature") /\ call.result.ok =>
        /\ "sgnr" \in DOMAIN decode(call.result.val)
            <=> call.signerAddr # encodeAddress(SenderKey)
        /\ "sgnr" \in DOMAIN decode(call.result.val)
            => decode(call.result.val).sgnr = decodeAddress(call.signerAddr).publicKey

\* a signature attached for the sender itself, whose envelope has no sgnr
C15_Witness ==
    /\ Called("attachSignature")
    /\ call.result.ok
    /\ call.signerAddr = encodeAddress(SenderKey)
    /\ DOMAIN decode(call.result.val) = {"sig", "txn"}

ResultBlob == call.result.val.blob
SignerKey == decodeAddress(call.signerAddr).publicKey
\* the slots of a blob that hold the given public key
SlotsOf(b, pk) == {j \in DOMAIN SubsigsOf(b) : SubsigsOf(b)[j].pk = pk}
\* every slot of b under pk holds exactly the signature sig
HoldsSignature(b, pk, sig) ==
    \A j \in SlotsOf(b, pk) : "s" \in DOMAIN SubsigsOf(b)[j] /\ SubsigsOf(b)[j].s = sig
\* no slot of b under pk holds a signature other than sig
FreeFor(b, pk, sig) ==
    \A j \in SlotsOf(b, pk) : "s" \in DOMAIN SubsigsOf(b)[j] => SubsigsOf(b)[j].s = sig

ExternalSignatureCall ==
    call.op \in {"attachSignature", "partialSignWithMultisigSignature",
                 "appendSignRawMultisigSignature"}

\* C16: attachSignature, partialSignWithMultisigSignature and
\* appendSignRawMultisigSignature reject a signature whose length is not the
\* Ed25519 signature length and produce nothing; a signature of that length
\* is placed in the envelope, or in the signer's slot, exactly as given,
\* whether or not it verifies.
C16_ExternalSignatures ==
    /\ ExternalSignatureCall /\ call.signature.len # SIGNATURE_LENGTH =>
        /\ ~call.result.ok
        /\ call.result.err =
                IF Called("attachSignature") THEN "Invalid signature length"
                ELSE MULTISIG_SIGNATURE_LENGTH_ERROR_MSG
        /\ Called("partialSignWithMultisigSignature") => merged = Pending
        /\ Called("appendSignRawMultisigSignature") => merged = Ok(call.blob)
    /\ ExternalSignatureCall /\ call.signature.len = SIGNATURE_LENGTH =>
        /\ Called("attachSignature") =>
            /\ call.result.ok
            /\ decode(call.result.val).sig = call.signature
        /\ Called("partialSignWithMultisigSignature") =>
            /\ call.result.ok <=> SlotsOfKey(SignerKey) # {}
            /\ call.result.ok =>
                /\ HoldsSignature(call.result.val, SignerKey, call.signature)
                /\ SignedSlots(call.result.val) = SlotsOfKey(SignerKey)
        /\ Called("appendSignRawMultisigSignature") =>
            /\ call.metadata = MetadataOf(pre) /\ SlotsOfKey(SignerKey) # {}
                /\ FreeFor(call.blob, SignerKey, call.signature)
                => call.result.ok
            /\ call.result.ok => HoldsSignature(ResultBlob, SignerKey, call.signature)

\* bytes that no key produced, appended to a blob under a signer's key
C16_Witness ==
    /\ Called("appendSignRawMultisigSignature")
    /\ call.result.ok
    /\ call.signature \in ForgedSignatures
    /\ ~verify(bytesToSign(txn.val), call.signature, SignerKey)
    /\ SlotsOf(ResultBlob, SignerKey) # {}
    /\ HoldsSignature(ResultBlob, SignerKey, call.signature)
    /\ ~HoldsSignature(call.blob, SignerKey, call.signature)

\* the sender recorded in a blob's transaction
SenderOfBlob(b) == addressOrZero(Get(decode(b).txn, "snd"))

\* sgnr is present iff the sender is not the multisig address of the blob's
\* own (v, thr, pks), and is then that address's public key
AuthAddrMatchesPreImage(b) ==
    /\ "sgnr" \in DOMAIN decode(b) <=> SenderOfBlob(b) # msigAddrOf(decode(b).msig)
    /\ "sgnr" \in DOMAIN decode(b)
        => decode(b).sgnr = fromMultisigPreImg(preImageOf(decode(b).msig))

MultisigBlobCall ==
    call.op \in {"createMultisigTransaction", "partialSignTxn",
                 "partialSignWithMultisigSignature", "mergeMultisigTransactions"}
TxIDAndBlobCall ==
    call.op \in {"signMultisigTransaction", "appendSignMultisigTransaction",
                 "appendSignRawMultisigSignature"}

\* C17: every multisig blob that createMultisigTransaction, the partial-sign,
\* merge and append-sign operations return, in any sequence, carries sgnr iff
\* the transaction's sender differs from the multisig address derived from
\* the blob's (v, thr, pks), and sgnr is then that address's public key.
C17_AuthAddrOfMultisigBlobs ==
    /\ merged.ok /\ pc \in {"sign", "done"} => AuthAddrMatchesPreImage(merged.val)
    /\ MultisigBlobCall /\ call.result.ok => AuthAddrMatchesPreImage(call.result.val)
    /\ TxIDAndBlobCall /\ call.result.ok => AuthAddrMatchesPreImage(ResultBlob)
    /\ pc \in {"sign", "done"} =>
        \A b \in OperationBlobs[<<params, pre>>] : AuthAddrMatchesPreImage(b)

\* a blob without sgnr, its sender being the multisig account, to which a
\* signature was appended
C17_Witness ==
    /\ Called("appendSignMultisigTransaction")
    /\ call.result.ok
    /\ SenderOfBlob(ResultBlob) = msigAddrOf(decode(ResultBlob).msig)
    /\ "sgnr" \notin DOMAIN decode(ResultBlob)
    /\ SignedSlots(ResultBlob) # SignedSlots(call.blob)

EmptyBlob == createMultisigTransaction(txn.val, MetadataOf(pre))
CallerKey == keyPairFromSecretKey(call.sk).publicKey

\* blob b is the empty multisig blob of the run's transaction and pre-image
\* except that exactly the slots under pk hold the signature sig
EmptyBlobSignedBy(b, pk, sig) ==
    /\ DOMAIN decode(b) = DOMAIN decode(EmptyBlob)
    /\ \A k \in DOMAIN decode(b) \ {"msig"} : decode(b)[k] = decode(EmptyBlob)[k]
    /\ decode(b).msig.v = decode(EmptyBlob).msig.v
    /\ decode(b).msig.thr = decode(EmptyBlob).msig.thr
    /\ Len(SubsigsOf(b)) = Len(SubsigsOf(EmptyBlob))
    /\ \A j \in DOMAIN SubsigsOf(b) :
            SubsigsOf(b)[j] =
                IF SubsigsOf(EmptyBlob)[j].pk = pk
                THEN [pk |-> pk, s |-> sig]
                ELSE SubsigsOf(EmptyBlob)[j]

\* C18: partial sign fails with the key-not-found error, returning no blob,
\* when the signer's public key does not occur in pks; otherwise its result
\* is the empty multisig blob of the same transaction and pre-image except
\* that the slots whose pk is the signer's hold the signature, every other
\* slot being unsigned.
C18_PartialSign ==
    /\ Called("partialSignTxn") =>
        /\ call.result.ok <=> SlotsOfKey(CallerKey) # {}
        /\ ~call.result.ok =>
            /\ call.result.err = MULTISIG_KEY_NOT_EXIST_ERROR_MSG
            /\ merged = Pending
        /\ call.result.ok =>
            EmptyBlobSignedBy(call.result.val, CallerKey, rawSignTxn(txn.val, call.sk))
    /\ Called("signMultisigTransaction") =>
        /\ call.result.ok <=> SlotsOfKey(CallerKey) # {}
        /\ ~call.result.ok => call.result.err = MULTISIG_KEY_NOT_EXIST_ERROR_MSG
        /\ call.result.ok =>
            EmptyBlobSignedBy(ResultBlob, CallerKey, rawSignTxn(txn.val, call.sk))

\* a partial signature in a pre-image of three keys that leaves the two
\* slots of the other keys unsigned
C18_Witness ==
    /\ Called("partialSignTxn")
    /\ call.result.ok
    /\ Cardinality(SignedSlots(call.result.val)) = 1
    /\ Len(SubsigsOf(call.result.val)) = 3
    /\ SignedSlots(EmptyBlob) = {}

PreImageOfBlob(b) == preImageOf(decode(b).msig)

AppendCall ==
    call.op \in {"appendSignMultisigTransaction", "appendSignRawMultisigSignature"}
MergeCall == Called("mergeMultisigTransactions")

\* the call would change v, thr or the pks of the blob it is given: an
\* append-sign under another pre-image, a merge with a blob of another one
AlteringCall ==
    \/ AppendCall /\ preImageOfMetadata(call.metadata) # PreImageOfBlob(call.blob)
    \/ MergeCall /\ HasMsig(call.other)
        /\ PreImageOfBlob(call.other) # PreImageOfBlob(call.blob)

\* the key the call signs with
AppendKey ==
    IF Called("appendSignMultisigTransaction") THEN CallerKey ELSE SignerKey

\* the error an altering call ends with
AlteringCallError ==
    IF MergeCall
    THEN IF TxIDOfBlob(call.other) # TxIDOfBlob(call.blob)
         THEN MULTISIG_MERGE_MISMATCH_ERROR_MSG
         ELSE IF ~SameAuthAddr(call.other, call.blob)
         THEN MULTISIG_MERGE_MISMATCH_AUTH_ADDR_MSG
         ELSE MULTISIG_MERGE_WRONG_PREIMAGE_ERROR_MSG
    ELSE IF Called("appendSignRawMultisigSignature")
            /\ call.signature.len # SIGNATURE_LENGTH
         THEN MULTISIG_SIGNATURE_LENGTH_ERROR_MSG
         ELSE IF \A j \in DOMAIN call.metadata.addrs :
                    decodeAddress(call.metadata.addrs[j]).publicKey # AppendKey
         THEN MULTISIG_KEY_NOT_EXIST_ERROR_MSG
         ELSE MULTISIG_MERGE_MISMATCH_AUTH_ADDR_MSG

ContainedTxn(b) == from_obj_for_encoding(decode(b).txn).val
\* the signer's fresh signature of the transaction inside the blob appended to
FreshSignature == rawSignTxn(ContainedTxn(call.blob), call.sk)

\* appendSignMultisigTransaction called with the blob's own pre-image and a
\* secret key whose public key is in pks
AppendOwn ==
    /\ Called("appendSignMultisigTransaction")
    /\ preImageOfMetadata(call.metadata) = PreImageOfBlob(call.blob)
    /\ SlotsOf(call.blob, CallerKey) # {}

\* C20: appendSignMultisigTransaction, called with the blob's own pre-image
\* and a secret key whose public key is in pks, returns what merging the
\* original blob with a fresh partial signature of the contained transaction
\* returns (throwing only when the signer's slot already holds another
\* signature): every signature of the original is kept, the signer's slots
\* hold the fresh signature, and the returned txID is the ID of the
\* transaction inside the original blob, which every blob of a run of
\* successive appends shares.
C20_AppendSign ==
    /\ AppendOwn =>
        /\ call.result =
                withTxID(ContainedTxn(call.blob),
                         mergeMultisigTransactions(
                            <<call.blob,
                              partialSignTxn(ContainedTxn(call.blob),
                                             PreImageOfBlob(call.blob), call.sk).val>>))
        /\ call.result.ok <=> FreeFor(call.blob, CallerKey, FreshSignature)
        /\ ~call.result.ok => call.result.err = MULTISIG_MERGE_SIG_MISMATCH_ERROR_MSG
        /\ call.result.ok =>
            /\ Entries(ResultBlob) =
                    Entries(call.blob)
                    \cup {<<j, FreshSignature>> : j \in SlotsOf(call.blob, CallerKey)}
            /\ SamePreImage(ResultBlob, call.blob)
            /\ decode(ResultBlob).txn = decode(call.blob).txn
            /\ call.result.val.txID = TxIDOfBlob(call.blob)
            /\ TxIDOfBlob(ResultBlob) = TxIDOfBlob(call.blob)
    /\ merged.ok => TxIDOfBlob(merged.val) = txID(txn.val)
    /\ TxIDAndBlobCall /\ call.result.ok => call.result.val.txID = txID(txn.val)

\* the append that signs the last free slot of a three-key account, the
\* other two signatures being kept
C20_Witness ==
    /\ AppendOwn
    /\ call.result.ok
    /\ Cardinality(SignedSlots(call.blob)) = 2
    /\ Cardinality(SignedSlots(ResultBlob)) = 3
    /\ Cardinality({SubsigsOf(ResultBlob)[j].pk : j \in DOMAIN SubsigsOf(ResultBlob)}) = 3
    /\ call.result.val.txID = txID(txn.val)

\* a constructed transaction and the transaction decoded from its encoding
BothTransactions == pc = "decoded" /\ txn.ok /\ dec.ok

\* C21: rawTxID(t) is the hash of exactly bytesToSign(t), the tag "TX"
\* followed by the canonical encoding of t, and txID(t) is the base32
\* rendering of that hash; two transactions with equal bytesToSign have equal
\* raw and rendered IDs, also when their fields differ.
C21_TxIDOfBytesToSign ==
    /\ txn.ok =>
        /\ bytesToSign(txn.val) = <<TX_TAG, encode(get_obj_for_encoding(txn.val))>>
        /\ rawTxID(txn.val) = genericHash(bytesToSign(txn.val))
        /\ txID(txn.val) = <<"base32", genericHash(bytesToSign(txn.val))>>
    /\ dec.ok =>
        /\ rawTxID(dec.val) = genericHash(bytesToSign(dec.val))
        /\ txID(dec.val) = <<"base32", genericHash(bytesToSign(dec.val))>>
    /\ BothTransactions /\ bytesToSign(txn.val) = bytesToSign(dec.val) =>
        /\ rawTxID(txn.val) = rawTxID(dec.val)
        /\ txID(txn.val) = txID(dec.val)

\* a decoded transaction whose fields differ from the constructed one's while
\* both encode to the same bytes and so share one ID
C21_Witness ==
    /\ BothTransactions
    /\ txn.val # dec.val
    /\ bytesToSign(txn.val) = bytesToSign(dec.val)
    /\ txID(txn.val) = txID(dec.val)

(***************************************************************************)
(* Assignments to the fields of a constructed Transaction                  *)
(***************************************************************************)
MaxAssign == 2       \* assignments made to one Transaction

\* the fields class Transaction declares without the readonly modifier
MutableFields == {"group", "fee"}

isReadonly(field) == field \notin MutableFields

\* t.field = value
assign(t, field, value) == [t EXCEPT ![field] = value]

AssignInputs ==
    {[WithVariant(ty) EXCEPT !.suggestedParams.fee = fee,
                             !.suggestedParams.flatFee = Some(flat)] :
        ty \in TransactionTypes, fee \in 0..MaxFee, flat \in BOOLEAN}

GroupValues == {<<>>} \cup {Bytes(ALGORAND_TRANSACTION_GROUP_LENGTH, k) : k \in 1..MaxKey}

AssignedValues(field) ==
    CASE field = "group" -> GroupValues
      [] field = "fee" -> 0..MaxFee
      [] OTHER -> {<<>>}

NoAssignment == [op |-> "assign", fields |-> <<>>]

InitAssign ==
    /\ params \in AssignInputs
    /\ pc = "params"
    /\ obj = Pending
    /\ txn = Pending
    /\ dec = Pending
    /\ pre = NoPreImage
    /\ blobs = <<>>
    /\ merged = Pending
    /\ verified = NotVerified
    /\ call = NoAssignment

\* new Transaction(params)
ConstructForAssign ==
    /\ pc = "params"
    /\ call = NoAssignment
    /\ txn' = Transaction(params)
    /\ pc' = IF Transaction(params).ok THEN "assignable" ELSE "rejected"
    /\ UNCHANGED <<params, obj, dec, pre, blobs, merged, verified, call>>

\* txn.field = value, for a field the class lets a caller assign
Assign ==
    /\ pc = "assignable"
    /\ Len(call.fields) < MaxAssign
    /\ \E field \in DOMAIN txn.val :
        /\ ~isReadonly(field)
        /\ \E value \in AssignedValues(field) :
            /\ txn' = Ok(assign(txn.val, field, value))
            /\ call' = [op |-> "assign", fields |-> Append(call.fields, field)]
    /\ UNCHANGED <<pc, params, obj, dec, pre, blobs, merged, verified>>

NextAssign == ConstructForAssign \/ Assign

SpecAssign == InitAssign /\ [][NextAssign]_vars

\* the fields an assignment step gives a new value
ChangedFields == {f \in DOMAIN txn.val : txn'.val[f] # txn.val[f]}

AssignStep == pc = "assignable" /\ call' # call

\* C22: after construction no field other than group (in particular not fee)
\* is given a new value, group is given a value once and not a second time,
\* and giving group a non-empty value changes txID.
C22_OnlyGroupOnce ==
    [][AssignStep =>
        /\ ChangedFields \subseteq {"group"}
        /\ call'.fields = <<"group">>
        /\ txn'.val.group # <<>> /\ "group" \in ChangedFields
                => txID(txn'.val) # txID(txn.val)]_vars

\* the part of C22 the class keeps: the readonly fields never change, and a
\* new non-empty group changes txID
C22_ReadonlyFieldsAndGroupID ==
    [][AssignStep =>
        /\ ChangedFields \subseteq MutableFields
        /\ txn'.val.group # <<>> /\ "group" \in ChangedFields
                => txID(txn'.val) # txID(txn.val)]_vars

\* a second assignment has been made, to fee, and changed the ID the
\* transaction had after its group was set
C22_FeeReassigned ==
    /\ pc = "assignable"
    /\ call.fields = <<"group", "fee">>
    /\ txn.val.group # <<>>
    /\ txn.val.fee # resolveFee(params)
    /\ txID(txn.val) # txID(assign(Transaction(params).val, "group", txn.val.group))

(***************************************************************************)
(* Box references (checked under SpecTxn)                                  *)
(***************************************************************************)
\* the (i, n) pairs of an encoded box list, absent keys read as their defaults
BoxPairs(apbx) ==
    [j \in DOMAIN apbx |->
        <<OrElse(Get(apbx[j], "i"), 0), OrElse(Get(apbx[j], "n"), <<>>)>>]

\* an encoded application call carrying box references has been decoded
BoxesDecoded ==
    /\ pc = "decoded"
    /\ obj.ok
    /\ obj.val.type = "appl"
    /\ "apbx" \in DOMAIN obj.val

WireForeignApps == OrElse(Get(obj.val, "apfa"), <<>>)

\* decoding maps i = 0 to appIndex 0, 1 <= i <= length(foreignApps) to
\* foreignApps[i-1], and rejects a larger i
BoxesDecodedByIndex ==
    BoxesDecoded =>
        /\ dec.ok <=> \A j \in DOMAIN obj.val.apbx :
                            BoxPairs(obj.val.apbx)[j][1] <= Len(WireForeignApps)
        /\ dec.ok =>
            \A j \in DOMAIN obj.val.apbx :
                /\ dec.val.applicationCall[1].boxes[j].name = BoxPairs(obj.val.apbx)[j][2]
                /\ dec.val.applicationCall[1].boxes[j].appIndex =
                        IF BoxPairs(obj.val.apbx)[j][1] = 0 THEN 0
                        ELSE WireForeignApps[BoxPairs(obj.val.apbx)[j][1]]

\* re-encoding the decoded transaction reproduces the (i, n) pairs
BoxesReencoded ==
    /\ canEncode(dec.val)
    /\ BoxPairs(get_obj_for_encoding(dec.val).apbx) = BoxPairs(obj.val.apbx)

FirstOccurrences ==
    \A j \in DOMAIN obj.val.apbx :
        LET index == BoxPairs(obj.val.apbx)[j][1] IN
        index # 0 =>
            /\ WireForeignApps[index] # OrElse(Get(obj.val, "apid"), 0)
            /\ WireForeignApps[index] # 0
            /\ IndexOf(WireForeignApps, WireForeignApps[index]) = index

C23_BoxRoundTripOfFirstOccurrences ==
    /\ BoxesDecodedByIndex
    /\ BoxesDecoded /\ dec.ok /\ FirstOccurrences => BoxesReencoded

\* a reference to the second of two equal foreign apps comes back as a
\* reference to the first
C23_RepeatedForeignApp ==
    /\ BoxesDecoded
    /\ dec.ok
    /\ WireForeignApps = <<100, 100>>
    /\ BoxPairs(obj.val.apbx) = <<<<2, <<120>>>>>>
    /\ BoxPairs(get_obj_for_encoding(dec.val).apbx) = <<<<1, <<120>>>>>>

(***************************************************************************)
(* All operations together: the transaction pipeline, the merge of         *)
(* collected blobs and the signing operations                              *)
(***************************************************************************)
InitOperations == InitTxn \/ InitMsig \/ InitSign

\* the three machines keep apart by their positions
NextOperations ==
    \/ pc \in {"params", "constructed", "encoded"} /\ NextTxn
    \/ pc \in {"collect", "merged"} /\ NextMsig
    \/ pc = "sign" /\ NextSign

SpecOperations == InitOperations /\ [][NextOperations]_vars

\* what a throwing operation leaves its caller with: the error and nothing else
FailedResult(r) == ~r.ok /\ DOMAIN r = {"ok", "err"}

\* the blobs given to the merge are such that some blob must be rejected
SomeBlobRejected == MergeMustFail \/ (MutuallyCompatible /\ ~ConflictFree)

\* a later blob is rejected after the blobs before it were merged
LaterBlobRejected ==
    /\ Len(blobs) >= 3
    /\ mergeMultisigTransactions(SubSeq(blobs, 1, Len(blobs) - 1)).ok
    /\ SomeBlobRejected

\* a failed operation has returned nothing
NothingReturned ==
    /\ pc = "rejected" => FailedResult(txn)
    /\ pc = "decoded" /\ ~dec.ok => FailedResult(dec)
    /\ pc = "merged" /\ SomeBlobRejected => FailedResult(merged)
    /\ pc \in {"sign", "done"} /\ call # NoCall /\ ~call.result.ok =>
            FailedResult(call.result)

\* an operation leaves its inputs as they were, and a failed one leaves the
\* caller's blob as it was
InputsUnchanged ==
    /\ pc = "params" => params' = params
    /\ pc = "encoded" => obj' = obj
    /\ pc = "collect" /\ pc' = "merged" => blobs' = blobs /\ txn' = txn
    /\ pc = "sign" =>
        /\ txn' = txn
        /\ ~call'.result.ok => merged' = merged
        /\ merged.ok => call'.blob = merged.val

\* C24: every operation is all-or-nothing: a failed construction, decoding,
\* signing, attachSignature, partial sign, merge or append-sign returns no
\* object or blob (not even a partially merged one when a later blob of a
\* merge is rejected after earlier blobs were merged) and leaves the input
\* Transaction and the input blobs unchanged.
C24_AllOrNothing == []NothingReturned /\ [][InputsUnchanged]_vars

\* a merge of three blobs whose first two merge and whose third is rejected
C24_Witness ==
    /\ pc = "merged"
    /\ LaterBlobRejected
    /\ FailedResult(merged)
    /\ merged.err # MULTISIG_MERGE_SIG_MISMATCH_ERROR_MSG

(***************************************************************************)
(* Fees as 64-bit quantities.  A bigint is a sequence of 16-bit limbs,     *)
(* least significant first, wide enough for the product of a 64-bit fee    *)
(* and an encoded size.                                                    *)
(***************************************************************************)
LimbBase == 2 ^ 16
LimbIndexes == 1..6

\* BigInt(n) for a small n
BigInt(n) ==
    [i \in LimbIndexes |->
        IF i = 1 THEN n % LimbBase ELSE IF i = 2 THEN n \div LimbBase ELSE 0]

\* 2^e as a bigint
BigPowerOfTwo(e) ==
    [i \in LimbIndexes |-> IF i = (e \div 16) + 1 THEN 2 ^ (e % 16) ELSE 0]

MAX_UINT_64 == [i \in LimbIndexes |-> IF i <= 4 THEN LimbBase - 1 ELSE 0]

RECURSIVE bigLessFrom(_, _, _)
bigLessFrom(a, b, i) ==
    IF i = 0 THEN FALSE
    ELSE IF a[i] # b[i] THEN a[i] < b[i]
    ELSE bigLessFrom(a, b, i - 1)

\* a < b
bigLess(a, b) == bigLessFrom(a, b, 6)

RECURSIVE bigTimesFrom(_, _, _, _)
bigTimesFrom(a, k, i, carry) ==
    IF i > 6 THEN <<>>
    ELSE <<(a[i] * k + carry) % LimbBase>>
         \o bigTimesFrom(a, k, i + 1, (a[i] * k + carry) \div LimbBase)

\* a * BigInt(k) for a small k
bigTimes(a, k) == bigTimesFrom(a, k, 1, 0)

\* utils.ensureUint64 on a non-negative bigint
ensureUint64OkBig(input) == ~bigLess(MAX_UINT_64, input)

\* the encoded length of a non-negative integer of any size
msgpackBigIntLen(a) ==
    IF bigLess(a, BigInt(LimbBase)) THEN msgpackIntLen(a[1])
    ELSE IF bigLess(a, BigPowerOfTwo(32)) THEN 5
    ELSE 9

\* this.estimateSize() while this.fee holds the suggested fee: the size with
\* a fee of 1 less the byte of that fee, with the bytes of the fee itself
estimateSizeWithFee(p, fee) ==
    IF fee = BigInt(0)
    THEN estimateSize(transactionBeforeFee([p EXCEPT !.suggestedParams.fee = 0]))
    ELSE estimateSize(transactionBeforeFee([p EXCEPT !.suggestedParams.fee = 1]))
         - msgpackIntLen(1) + msgpackBigIntLen(fee)

\* this.fee *= BigInt(this.estimateSize()), raised to minFee when smaller
sizedFee(fee, size, minFee) ==
    IF bigLess(bigTimes(fee, size), BigInt(minFee)) THEN BigInt(minFee)
    ELSE bigTimes(fee, size)

resolveBigFee(p, fee) ==
    IF feeDependsOnSize(p.suggestedParams)
    THEN sizedFee(fee, estimateSizeWithFee(p, fee), p.suggestedParams.minFee)
    ELSE fee

\* new Transaction(p) for a p whose suggested fee is the bigint fee
TransactionWithFee(p, fee) ==
    IF constructorError([p EXCEPT !.suggestedParams.fee = 0]) # ""
    THEN Err(constructorError([p EXCEPT !.suggestedParams.fee = 0]))
    ELSE IF ~ensureUint64OkBig(fee) THEN Err("Not a uint64")
    ELSE Ok([transactionBeforeFee(p) EXCEPT !.fee = resolveBigFee(p, fee)])

\* suggested fees up to and beyond the 64-bit range
BigFees ==
    {BigInt(n) : n \in 0..MaxFee}
    \cup {BigInt(1000), BigPowerOfTwo(32), BigPowerOfTwo(56), BigPowerOfTwo(63),
          MAX_UINT_64, BigPowerOfTwo(64)}

BigFeeInputs ==
    {[WithVariant(ty) EXCEPT !.suggestedParams.fee = 0,
                             !.suggestedParams.flatFee = flat,
                             !.suggestedParams.minFee = minFee] :
        ty \in TransactionTypes, flat \in OptOf(BOOLEAN), minFee \in {0, 1000}}

InitFee ==
    /\ params \in BigFeeInputs
    /\ call \in {[op |-> "new Transaction", fee |-> fee] : fee \in BigFees}
    /\ pc = "fee"
    /\ obj = Pending
    /\ txn = Pending
    /\ dec = Pending
    /\ pre = NoPreImage
    /\ blobs = <<>>
    /\ merged = Pending
    /\ verified = NotVerified

\* new Transaction(params), the suggested fee being call.fee
ConstructWithFee ==
    /\ pc = "fee"
    /\ txn' = TransactionWithFee(params, call.fee)
    /\ pc' = IF TransactionWithFee(params, call.fee).ok THEN "feeResolved" ELSE "feeRejected"
    /\ UNCHANGED <<params, obj, dec, pre, blobs, merged, verified, call>>

NextFee == ConstructWithFee

SpecFee == InitFee /\ [][NextFee]_vars

\* C25: the fee of every successfully constructed Transaction is an unsigned
\* 64-bit value, also when flatFee is false and the suggested per-byte fee is
\* multiplied by the estimated size; a construction whose resulting fee would
\* overflow 64 bits is rejected.
C25_FeeIsUint64 ==
    /\ pc = "feeResolved" => ensureUint64OkBig(txn.val.fee)
    /\ pc = "feeRejected" => ~ensureUint64OkBig(call.fee)

\* what the constructor does keep: a suggested fee beyond 64 bits is rejected,
\* a flat fee is stored as given, and below 2^16 the fee is the one the
\* constructor computes on small integers
C25_SuggestedFeeIsUint64 ==
    /\ pc = "feeRejected" <=> (txn # Pending /\ ~ensureUint64OkBig(call.fee))
    /\ pc = "feeResolved" =>
        /\ ensureUint64OkBig(call.fee)
        /\ ~feeDependsOnSize(params.suggestedParams) => txn.val.fee = call.fee
        /\ bigLess(call.fee, BigInt(LimbBase)) =>
                txn.val.fee =
                    BigInt(resolveFee([params EXCEPT !.suggestedParams.fee = call.fee[1]]))

\* a per-byte fee of 2^63 multiplied by the size into a fee beyond 64 bits
C25_FeeOverflows ==
    /\ pc = "feeResolved"
    /\ call.fee = BigPowerOfTwo(63)
    /\ feeDependsOnSize(params.suggestedParams)
    /\ bigLess(MAX_UINT_64, txn.val.fee)
    /\ txn.val.fee = bigTimes(call.fee, estimateSizeWithFee(params, call.fee))

(***************************************************************************)
(* Runs of merges and appends (checked under SpecSign)                     *)
(***************************************************************************)
\* the step replaces the caller's multisig blob by the blob an operation returned
BlobReplaced == merged.ok /\ merged'.ok /\ merged' # merged

\* the new blob has the pre-image, the auth-address and the transaction of the
\* blob it replaces, and every signature of that blob, in its slot
BlobExtended ==
    /\ SamePreImage(merged'.val, merged.val)
    /\ SameAuthAddr(merged'.val, merged.val)
    /\ TxIDOfBlob(merged'.val) = TxIDOfBlob(merged.val)
    /\ Entries(merged.val) \subseteq Entries(merged'.val)

\* every blob of a run has the pre-image and the transaction the run began with
BlobOfOriginal ==
    merged.ok =>
        /\ PreImageOfBlob(merged.val) = pre
        /\ TxIDOfBlob(merged.val) = txID(txn.val)

\* C26: across any sequence of successful merge and append-sign operations
\* applied to a multisig blob, v, thr, the pk sequence and the transaction ID
\* stay those of the original blob, and the set of signed slots never shrinks:
\* every signature present before an operation is present, byte-equal, in the
\* same slot afterwards.
C26_BlobOnlyGrows == []BlobOfOriginal /\ [][BlobReplaced => BlobExtended]_vars

\* a third operation in a row has added a signature to a blob that held two
C26_Witness ==
    /\ (MergeCall \/ AppendCall)
    /\ call.result.ok
    /\ Cardinality(Entries(call.blob)) = 2
    /\ Cardinality(Entries(merged.val)) = 3
    /\ Entries(call.blob) \subseteq Entries(merged.val)
    /\ PreImageOfBlob(merged.val) = PreImageOfBlob(call.blob)

(***************************************************************************)
(* Distinct signers (checked under SpecMsig)                               *)
(***************************************************************************)
\* the public keys whose signature in the merged blob verifies
VerifyingKeys == {MergedMsig.subsig[j].pk : j \in MergedVerifying}

\* C27: verifyMultisig returns true only if signatures of at least threshold
\* distinct public keys verify; a single signer whose key occupies several
\* slots cannot alone make a blob with threshold greater than 1 verify.
C27_DistinctSigners ==
    (pc = "verified" /\ verified.result) => Cardinality(VerifyingKeys) >= MergedMsig.thr

\* what verifyMultisig does ensure: at least threshold slots verify
C27_VerifyingSlots ==
    (pc = "verified" /\ verified.result) => Cardinality(MergedVerifying) >= MergedMsig.thr

\* one signer's partial signature, merged with the unsigned blob, verifies
\* against a threshold of 2
C27_SingleSignerVerifies ==
    /\ pc = "verified"
    /\ verified.result
    /\ MergedMsig.thr = 2
    /\ \A i \in DOMAIN blobs :
            blobs[i] \in {SignerBlobs[<<params, pre>>].empty,
                          PartialBySigner[<<params, pre>>][<<"sk", 1>>].val}
    /\ VerifyingKeys = {Pk(1)}
    /\ Cardinality(MergedVerifying) = 2

(***************************************************************************)
(* Append-signing under another pre-image (checked under SpecSign)         *)
(***************************************************************************)
\* an append-sign whose (version, threshold, addrs) is not the pre-image of
\* the blob it is given
AppendUnderOtherPreImage ==
    /\ AppendCall
    /\ preImageOfMetadata(call.metadata) # PreImageOfBlob(call.blob)

\* the errors of the merge and of the key search
MergeOrKeyErrors ==
    {MULTISIG_MERGE_MISMATCH_AUTH_ADDR_MSG, MULTISIG_MERGE_WRONG_PREIMAGE_ERROR_MSG,
     MULTISIG_KEY_NOT_EXIST_ERROR_MSG}

\* the raw signature handed to appendSignRawMultisigSignature has a wrong length
RawSignatureOfWrongLength ==
    /\ Called("appendSignRawMultisigSignature")
    /\ ~isValidSignatureLength(call.signature.len)

\* the caller's blob is the blob the call was given, pre-image and
\* auth-address included
BlobKept ==
    /\ merged.ok
    /\ merged.val = call.blob
    /\ SamePreImage(merged.val, call.blob)
    /\ SameAuthAddr(merged.val, call.blob)

====
